---- MODULE Spec2Model ----
(***************************************************************************)
(* A model of the discrete_log_server repository: the wire codec of        *)
(* src/src/lib.rs, the number-theoretic engine of src/src/algo/mod.rs and  *)
(* the task fabric of src/src/bin/server.rs (accept loop, one reader and   *)
(* one writer task per connection, one broker task, tokio mpsc channels    *)
(* and a cancellation token per connection).                               *)
(***************************************************************************)
EXTENDS Integers, Sequences, FiniteSets, TLC

\* ------------------------------------------------------------------ bounds
\* Number of TCP connections the listener can yield.
NumClients == 2
\* Number of request frames the clients send in total.
MaxFrames == 2
\* buf_size, the capacity handed to accept_loop and main_broker.
BufSize == 1
\* Number of request frames the clients send in total in the behaviours
\* checked for progress.
FairFrames == 1

Peers == 1..NumClients

\* ------------------------------------------------------------ result shapes
\* A computation that unwinds (panic!, a failed assert!, a division by zero).
Panic == [panic |-> TRUE]
Ok(v) == [panic |-> FALSE, v |-> v]
\* Option<T>
None == [some |-> FALSE]
Some(v) == [some |-> TRUE, v |-> v]

\* =================================================================== codec
\* A u64 is held as four 16-bit limbs, least significant first, so that the
\* whole 64-bit range is representable.
LimbBase == 256 * 256
U64Of(n) == <<n % LimbBase, n \div LimbBase, 0, 0>>
U64Val(u) == u[1] + LimbBase * u[2]

\* a ^ b on naturals
RECURSIVE BitXor(_, _)
BitXor(a, b) ==
    IF a = 0 THEN b
    ELSE IF b = 0 THEN a
    ELSE ((a + b) % 2) + 2 * BitXor(a \div 2, b \div 2)

\* ((val >> (8 * i)) & 0xff) as u8
ShrByte(val, i) == (val[(i \div 2) + 1] \div (IF i % 2 = 0 THEN 1 ELSE 256)) % 256

\* val ^ ((byte as u64) << (i * 8))
XorShl(val, byte, i) ==
    [val EXCEPT ![(i \div 2) + 1] = BitXor(@, byte * (IF i % 2 = 0 THEN 1 ELSE 256))]

FrameLen == 25
ZeroTag == [k \in 1..FrameLen |-> 0]

\* A variant of Frame::serialize_8_bytes that writes the most significant
\* byte first.
Frame_serialize_8_bytes_big_endian(tag, idx, val) ==
    [k \in 1..FrameLen |->
        IF idx <= k - 1 /\ k - 1 < idx + 8
        THEN BitXor(tag[k], ShrByte(val, 7 - (k - 1 - idx)))
        ELSE tag[k]]

\* Frame::serialize_8_bytes: tag[i + idx] ^= byte i of val, i in 0..8
\* (tag[k] of the model is tag[k - 1] of the source).
Frame_serialize_8_bytes(tag, idx, val) ==
    [k \in 1..FrameLen |->
        IF idx <= k - 1 /\ k - 1 < idx + 8
        THEN BitXor(tag[k], ShrByte(val, k - 1 - idx))
        ELSE tag[k]]

RECURSIVE DeserLoop(_, _, _, _)
DeserLoop(tag, idx, val, i) ==
    IF i = 8 THEN val
    ELSE DeserLoop(tag, idx, XorShl(val, tag[i + idx + 1], i), i + 1)

\* A variant of Frame::deserialize_8_bytes that folds byte 7 in twice, which
\* cancels it: the most significant byte of the field is lost.
Frame_deserialize_8_bytes_short(tag, idx, val) ==
    DeserLoop(tag, idx, XorShl(val, tag[7 + idx + 1], 7), 0)

\* Frame::deserialize_8_bytes: *val ^= (tag[i + idx] as u64) << (i * 8)
Frame_deserialize_8_bytes(tag, idx, val) == DeserLoop(tag, idx, val, 0)

ZeroU64 == <<0, 0, 0, 0>>

\* impl BytesSer for Frame
Frame_serialize(f) ==
    CASE f.kind = "Log" ->
            Frame_serialize_8_bytes(
                Frame_serialize_8_bytes(
                    Frame_serialize_8_bytes([ZeroTag EXCEPT ![1] = BitXor(@, 1)], 1, f.g),
                    9, f.h),
                17, f.p)
      [] f.kind = "RSA" ->
            Frame_serialize_8_bytes(
                Frame_serialize_8_bytes([ZeroTag EXCEPT ![1] = BitXor(@, 2)], 1, f.n),
                9, f.e)
      [] f.kind = "Prime" ->
            Frame_serialize_8_bytes([ZeroTag EXCEPT ![1] = BitXor(@, 3)], 1, f.p)
      [] f.kind = "Quit" -> [ZeroTag EXCEPT ![1] = BitXor(@, 4)]

\* impl BytesDeser for Frame: an unknown type byte panics.
Frame_deserialize(tag) ==
    LET type_byte == tag[1] IN
    IF BitXor(type_byte, 1) = 0 THEN
        Ok([kind |-> "Log",
            g |-> Frame_deserialize_8_bytes(tag, 1, ZeroU64),
            h |-> Frame_deserialize_8_bytes(tag, 9, ZeroU64),
            p |-> Frame_deserialize_8_bytes(tag, 17, ZeroU64)])
    ELSE IF BitXor(type_byte, 2) = 0 THEN
        Ok([kind |-> "RSA",
            n |-> Frame_deserialize_8_bytes(tag, 1, ZeroU64),
            e |-> Frame_deserialize_8_bytes(tag, 9, ZeroU64)])
    ELSE IF BitXor(type_byte, 3) = 0 THEN
        Ok([kind |-> "Prime", p |-> Frame_deserialize_8_bytes(tag, 1, ZeroU64)])
    ELSE IF BitXor(type_byte, 4) = 0 THEN
        Ok([kind |-> "Quit"])
    ELSE Panic

\* ---------------------------------------------------------- Response codec
ResponseLen == 57
ZeroResponseTag == [k \in 1..ResponseLen |-> 0]
ZeroU32 == <<0, 0>>

\* Response::serialize_8_bytes: tag[i + idx] ^= byte i of val, i in 0..8
Response_serialize_8_bytes(tag, idx, val) ==
    [k \in 1..ResponseLen |->
        IF idx <= k - 1 /\ k - 1 < idx + 8
        THEN BitXor(tag[k], ShrByte(val, k - 1 - idx))
        ELSE tag[k]]

\* Response::serialize_4_bytes: tag[i + idx] ^= byte i of val, i in 0..4;
\* a u32 is held as two 16-bit limbs.
Response_serialize_4_bytes(tag, idx, val) ==
    [k \in 1..ResponseLen |->
        IF idx <= k - 1 /\ k - 1 < idx + 4
        THEN BitXor(tag[k], ShrByte(val, k - 1 - idx))
        ELSE tag[k]]

RECURSIVE ResponseDeserLoop(_, _, _, _, _)
ResponseDeserLoop(tag, idx, val, i, n) ==
    IF i = n THEN val
    ELSE ResponseDeserLoop(tag, idx, XorShl(val, tag[idx + i + 1], i), i + 1, n)

\* Response::deserialize_8_bytes: *val ^= (tag[idx + i] as u64) << (i * 8)
Response_deserialize_8_bytes(tag, idx, val) == ResponseDeserLoop(tag, idx, val, 0, 8)

\* Response::deserialize_4_bytes: *val ^= (tag[i + idx] as u32) << (i * 8)
Response_deserialize_4_bytes(tag, idx, val) == ResponseDeserLoop(tag, idx, val, 0, 4)

\* The fields Response::serialize writes for each variant, in order, eight
\* bytes each from byte 1 on (Prime's prob is written apart, as four bytes).
ResponseFields(kind) ==
    CASE kind = "ConnectionOk" -> <<>>
      [] kind = "NotPrime" -> <<"p">>
      [] kind = "Prime" -> <<"p">>
      [] kind = "LogItem" -> <<"i", "xi", "ai", "bi", "yi", "gi", "di">>
      [] kind = "SuccessfulLog" -> <<"log", "g", "h", "p">>
      [] kind = "UnsuccessfulLog" -> <<"g", "h", "p">>
      [] kind = "RSAItem" -> <<"i", "xi", "yi", "g", "n">>
      [] kind = "SuccessfulRSA" -> <<"p", "q">>
      [] kind = "UnsuccessfulRSA" -> <<"n">>

\* The type byte of each variant Response::serialize accepts.
ResponseTagByte(kind) ==
    CASE kind = "ConnectionOk" -> 1
      [] kind = "NotPrime" -> 2
      [] kind = "Prime" -> 3
      [] kind = "LogItem" -> 4
      [] kind = "SuccessfulLog" -> 5
      [] kind = "UnsuccessfulLog" -> 6
      [] kind = "RSAItem" -> 7
      [] kind = "SuccessfulRSA" -> 8
      [] kind = "UnsuccessfulRSA" -> 9

RECURSIVE SerFields(_, _, _, _)
SerFields(tag, r, fields, j) ==
    IF j > Len(fields) THEN tag
    ELSE SerFields(Response_serialize_8_bytes(tag, 1 + 8 * (j - 1), r[fields[j]]),
                   r, fields, j + 1)

\* impl BytesSer for Response: Response::Log and Response::RSA panic.  A
\* field the match arm's pattern does not bind is not written.
Response_serialize(r) ==
    IF r.kind \in {"Log", "RSA"} THEN Panic
    ELSE LET tag == SerFields([ZeroResponseTag EXCEPT ![1] = BitXor(@, ResponseTagByte(r.kind))],
                              r, ResponseFields(r.kind), 1)
         IN Ok(IF r.kind = "Prime" THEN Response_serialize_4_bytes(tag, 9, r.prob) ELSE tag)

\* impl BytesDeser for Response: an unknown type byte panics.
Response_deserialize(tag) ==
    LET kinds == {k \in {"ConnectionOk", "NotPrime", "Prime", "LogItem", "SuccessfulLog",
                         "UnsuccessfulLog", "RSAItem", "SuccessfulRSA", "UnsuccessfulRSA"} :
                    ResponseTagByte(k) = tag[1]}
    IN IF kinds = {} THEN Panic
       ELSE LET kind == CHOOSE k \in kinds : TRUE
                fields == ResponseFields(kind)
                names == {fields[j] : j \in 1..Len(fields)}
                          \cup {"kind"} \cup (IF kind = "Prime" THEN {"prob"} ELSE {})
            IN Ok([f \in names |->
                    IF f = "kind" THEN kind
                    ELSE IF f = "prob" THEN Response_deserialize_4_bytes(tag, 9, ZeroU32)
                    ELSE LET j == CHOOSE j \in 1..Len(fields) : fields[j] = f
                         IN Response_deserialize_8_bytes(tag, 1 + 8 * (j - 1), ZeroU64)])

\* ================================================================== engine
\* The engine works on u64 values; the requests of this model carry values
\* whose products stay far below 2^64, and they are held as naturals.

RECURSIVE GcdLoop(_, _)
GcdLoop(a, b) == IF a % b > 0 THEN GcdLoop(b, a % b) ELSE b

\* utils::gcd: assert!(a != 0 && b != 0)
gcd(a, b) == IF a = 0 \/ b = 0 THEN Panic ELSE Ok(GcdLoop(a, b))

RECURSIVE PowLoop(_, _, _, _)
PowLoop(g, e, n, r) ==
    IF e > 0
    THEN PowLoop((g * g) % n, e \div 2, n, IF e % 2 = 1 THEN (r * g) % n ELSE r)
    ELSE r

\* utils::fast_power: r %= n divides by zero when n = 0 and e > 0
fast_power(g, e, n) == IF e > 0 /\ n = 0 THEN Panic ELSE Ok(PowLoop(g, e, n, 1))

RECURSIVE WeightsLoop(_, _, _, _)
WeightsLoop(a, b, p_vec, q_vec) ==
    IF a % b > 0
    THEN LET a2 == b
             b2 == a % b
             q == a2 \div b2
             p1 == p_vec[Len(p_vec)]
             p2 == p_vec[Len(p_vec) - 1]
             q1 == q_vec[Len(q_vec)]
             q2 == q_vec[Len(q_vec) - 1]
         IN WeightsLoop(a2, b2, Append(p_vec, p1 * q + p2), Append(q_vec, q1 * q + q2))
    ELSE <<p_vec[Len(p_vec) - 1], q_vec[Len(q_vec) - 1]>>

\* A variant of gcd_weights whose p_vec starts as [1, 1].
gcd_weights_p_one(a, b) ==
    IF b = 0 THEN Panic
    ELSE Ok(WeightsLoop(a, b, <<1, 1>>, <<0, 1>>))

\* utils::gcd_weights: a / b divides by zero when b = 0
gcd_weights(a, b) ==
    IF b = 0 THEN Panic
    ELSE Ok(WeightsLoop(a, b, <<1, a \div b>>, <<0, 1>>))

RECURSIVE DoubleUntil(_, _)
\* while m < t { m += m }
DoubleUntil(m, t) == IF m < t THEN DoubleUntil(m + m, t) ELSE m

\* assert_eq!((v * v_inv) % m, d); v_inv
InvChecked(m, v, d, v_inv) == IF (v * v_inv) % m = d THEN Ok(v_inv) ELSE Panic

\* utils::gcd_mul_inverse (called with m >= 1)
gcd_mul_inverse(m, v, d, s, t) ==
    IF m * s > v * t /\ m * s - v * t = d THEN
        LET m2 == DoubleUntil(m, t) IN InvChecked(m2, v, d, (m2 - t) % m2)
    ELSE IF m * t > v * s /\ m * t - v * s = d THEN
        LET m2 == DoubleUntil(m, s) IN InvChecked(m2, v, d, (m2 - s) % m2)
    ELSE IF v * t > m * s /\ t * v - m * s = d THEN
        InvChecked(m, v, d, t % m)
    ELSE InvChecked(m, v, d, s % m)

RECURSIVE MrSquare(_, _, _)
\* for i in 0..k { if a % n == n - 1 { return false } a *= a; a %= n } true
MrSquare(a, n, k) ==
    IF k = 0 THEN TRUE
    ELSE IF a % n = n - 1 THEN FALSE
    ELSE MrSquare((a * a) % n, n, k - 1)

RECURSIVE OddPart(_)
OddPart(q) == IF q % 2 = 0 THEN OddPart(q \div 2) ELSE q
RECURSIVE TwoExp(_)
TwoExp(q) == IF q % 2 = 0 THEN 1 + TwoExp(q \div 2) ELSE 0

\* utils::miller_rabin(n, a), called with n > a >= 2: true when a proves n
\* composite.
miller_rabin(n, a) ==
    LET d == GcdLoop(a, n) IN
    IF n % 2 = 0 \/ (1 < d /\ d < n) THEN TRUE
    ELSE LET q == OddPart(n - 1)
             k == TwoExp(n - 1)
             a2 == PowLoop(a, q, n, 1)
         IN IF a2 % n = 1 THEN FALSE ELSE MrSquare(a2, n, k)

\* --------------------------------------------------------------- PollardsLog
\* PollardsLog::new
PollardsLog_new(p, g, h) ==
    [p |-> p, g |-> g, h |-> h, i |-> 0, xi |-> 1, yi |-> 1,
     ai |-> 0, bi |-> 0, gi |-> 0, di |-> 0, finished |-> FALSE]

\* PollardsLog::mix: the three-subset map; p = 0 divides by zero in % p,
\* p = 1 in % (p - 1).
PollardsLog_mix(self, x, a, b) ==
    IF self.p < 2 THEN Panic
    ELSE IF 0 <= x /\ x < self.p \div 3 THEN
        Ok(<<(self.g * x) % self.p, (a + 1) % (self.p - 1), b>>)
    ELSE IF self.p \div 3 <= x /\ x < (2 * self.p) \div 3 THEN
        Ok(<<(x * x) % self.p, (2 * a) % (self.p - 1), (2 * b) % (self.p - 1)>>)
    ELSE
        Ok(<<(self.h * x) % self.p, a, (b + 1) % (self.p - 1)>>)

\* A variant of PollardsLog::next that leaves out self.i += 1.
PollardsLog_next_same_i(self) ==
    IF self.finished THEN [panic |-> FALSE, self |-> self, item |-> None]
    ELSE
    LET t == PollardsLog_mix(self, self.xi, self.ai, self.bi) IN
    IF t.panic THEN Panic ELSE
    LET h1 == PollardsLog_mix(self, self.yi, self.gi, self.di) IN
    IF h1.panic THEN Panic ELSE
    LET h2 == PollardsLog_mix(self, h1.v[1], h1.v[2], h1.v[3]) IN
    IF h2.panic THEN Panic ELSE
    LET s2 == [self EXCEPT !.xi = t.v[1], !.ai = t.v[2], !.bi = t.v[3],
                           !.yi = h2.v[1], !.gi = h2.v[2], !.di = h2.v[3],
                           !.finished = (t.v[1] = h2.v[1])]
    IN [panic |-> FALSE, self |-> s2,
        item |-> Some([i |-> s2.i, xi |-> s2.xi, ai |-> s2.ai, bi |-> s2.bi,
                       yi |-> s2.yi, gi |-> s2.gi, di |-> s2.di])]

\* impl Iterator for PollardsLog: [panic, self, item]
PollardsLog_next(self) ==
    IF self.finished THEN [panic |-> FALSE, self |-> self, item |-> None]
    ELSE
    LET t == PollardsLog_mix(self, self.xi, self.ai, self.bi) IN
    IF t.panic THEN Panic ELSE
    LET h1 == PollardsLog_mix(self, self.yi, self.gi, self.di) IN
    IF h1.panic THEN Panic ELSE
    LET h2 == PollardsLog_mix(self, h1.v[1], h1.v[2], h1.v[3]) IN
    IF h2.panic THEN Panic ELSE
    LET s2 == [self EXCEPT !.xi = t.v[1], !.ai = t.v[2], !.bi = t.v[3],
                           !.yi = h2.v[1], !.gi = h2.v[2], !.di = h2.v[3],
                           !.i = self.i + 1,
                           !.finished = (t.v[1] = h2.v[1])]
    IN [panic |-> FALSE, self |-> s2,
        item |-> Some([i |-> s2.i, xi |-> s2.xi, ai |-> s2.ai, bi |-> s2.bi,
                       yi |-> s2.yi, gi |-> s2.gi, di |-> s2.di])]

\* A variant of the loop of PollardsLog::solve that returns its first
\* candidate without comparing g^e mod p with h.
SolveLoop_unchecked(self, d, r, k) ==
    IF k >= d THEN None
    ELSE Some(((self.p - 1) \div d) * k + r)

RECURSIVE SolveLoop(_, _, _, _)
\* for k in 0..d { e = ((p - 1) / d) * k + r; if g^e mod p == h { found } }
SolveLoop(self, d, r, k) ==
    IF k >= d THEN None
    ELSE LET e == ((self.p - 1) \div d) * k + r IN
         IF PowLoop(self.g, e, self.p, 1) = self.h THEN Some(e)
         ELSE SolveLoop(self, d, r, k + 1)

\* PollardsLog::solve: Panic, or Ok(Option<u64>)
PollardsLog_solve(self) ==
    IF self.xi # self.yi \/ self.p < 2 THEN Panic ELSE
    LET m == self.p - 1
        u == IF self.ai >= self.gi THEN (self.ai - self.gi) % m
             ELSE (self.ai + m - self.gi) % m
        v == IF self.di >= self.bi THEN (self.di - self.bi) % m
             ELSE (self.di + m - self.bi) % m
        d == gcd(v, m)
    IN IF d.panic THEN Panic ELSE
    LET st == gcd_weights(v, m) IN
    IF st.panic THEN Panic ELSE
    LET v_inv == gcd_mul_inverse(m, v, d.v, st.v[1], st.v[2]) IN
    IF v_inv.panic THEN Panic ELSE
    IF (v * v_inv.v) % m # d.v THEN Panic ELSE
    Ok(SolveLoop(self, d.v, ((u * v_inv.v) % m) \div d.v, 0))

\* ------------------------------------------------------------ u64 arithmetic
\* The operations of u64 on values of the whole 64-bit range, on little-endian
\* base-256 digit sequences (the bytes of the value).
U64Bytes(u) ==
    <<ShrByte(u, 0), ShrByte(u, 1), ShrByte(u, 2), ShrByte(u, 3),
      ShrByte(u, 4), ShrByte(u, 5), ShrByte(u, 6), ShrByte(u, 7)>>
BytesU64(b) ==
    <<b[1] + 256 * b[2], b[3] + 256 * b[4], b[5] + 256 * b[6], b[7] + 256 * b[8]>>
BytesZero(n) == [k \in 1..n |-> 0]
BytesIsZero(dz) == \A k \in DOMAIN dz : dz[k] = 0
\* dp, widened with zero digits to n digits; the n low digits of dl; the digits
\* of dh above the n low ones
BytesPad(dp, n) == dp \o SubSeq(BytesZero(n), 1, n - Len(dp))
BytesLow(dl, n) == SubSeq(dl, 1, n)
BytesHigh(dh, n) == SubSeq(dh, n + 1, Len(dh))

\* The highest digit in which l1 and l2 differ decides.
BytesLessAt(l1, l2, ks) ==
    IF ks = {} THEN FALSE
    ELSE \E k \in ks : (\A j \in ks : j <= k) /\ l1[k] < l2[k]
\* z1 < z2 for Len(z1) = Len(z2)
BytesLess(z1, z2) == BytesLessAt(z1, z2, {k \in 1..Len(z1) : z1[k] # z2[k]})

\* The carry into digit k of a1 + a2 + cin: a digit below k overflows and the
\* digits between pass the carry on, or all the digits below k pass cin on.
BytesCarry(a1, a2, cin, k) ==
    IF \E j \in 1..(k - 1) : /\ a1[j] + a2[j] >= 256
                             /\ \A i \in (j + 1)..(k - 1) : a1[i] + a2[i] = 255
    THEN 1
    ELSE IF cin = 1 /\ \A i \in 1..(k - 1) : a1[i] + a2[i] = 255 THEN 1
    ELSE 0
\* x1 + x2 + cin for Len(x1) = Len(x2), with one more digit than x1
BytesAdd(x1, x2, cin) ==
    Append([k \in 1..Len(x1) |-> (x1[k] + x2[k] + BytesCarry(x1, x2, cin, k)) % 256],
           BytesCarry(x1, x2, cin, Len(x1) + 1))

\* The borrow into digit k of s1 - s2: the digits of s1 below k are less than
\* those of s2.
BytesBorrow(s1, s2, k) ==
    IF BytesLessAt(s1, s2, {j \in 1..(k - 1) : s1[j] # s2[j]}) THEN 1 ELSE 0
\* y1 - y2 for Len(y1) = Len(y2) and y1 >= y2
BytesSub(y1, y2) ==
    SubSeq([k \in 1..Len(y1) |-> (y1[k] - y2[k] - BytesBorrow(y1, y2, k) + 256) % 256],
           1, Len(y1))

RECURSIVE BytesColSum(_, _, _, _, _)
\* the sum of c1[i] * c2[j] over i + j = k + 1, for the digits lo .. hi of c1
BytesColSum(c1, c2, k, lo, hi) ==
    IF lo = hi
    THEN (IF lo <= k /\ k + 1 - lo <= Len(c2) THEN c1[lo] * c2[k + 1 - lo] ELSE 0)
    ELSE BytesColSum(c1, c2, k, lo, (lo + hi) \div 2)
         + BytesColSum(c1, c2, k, ((lo + hi) \div 2) + 1, hi)

\* The product from its column sums cs (each below 2^24): the low, middle and
\* high bytes of the columns are three numbers, the middle one a digit up and
\* the high one two digits up.
BytesMulCols(cs, n) ==
    BytesLow(
        BytesAdd(
            BytesLow(BytesAdd(SubSeq([k \in 1..n |-> cs[k] % 256], 1, n),
                              SubSeq([k \in 1..n |-> IF k > 1 THEN (cs[k - 1] \div 256) % 256
                                                     ELSE 0], 1, n), 0), n),
            SubSeq([k \in 1..n |-> IF k > 2 THEN cs[k - 2] \div (256 * 256) ELSE 0], 1, n),
            0), n)
\* w1 * w2, with Len(w1) + Len(w2) digits
BytesMul(w1, w2) ==
    BytesMulCols(SubSeq([k \in 1..(Len(w1) + Len(w2)) |-> BytesColSum(w1, w2, k, 1, Len(w1))],
                        1, Len(w1) + Len(w2)),
                 Len(w1) + Len(w2))

\* One step of binary long division: r = 2 r + bit; when r >= dd, r -= dd and
\* bit i of the quotient is set.
BytesDivShift(r2, dd, i, st) ==
    IF BytesLess(r2, dd) THEN [q |-> st.q, r |-> r2]
    ELSE [q |-> [st.q EXCEPT ![(i \div 8) + 1] = @ + 2 ^ (i % 8)],
          r |-> BytesSub(r2, dd)]
BytesDivStep(bit, dd, i, st) ==
    BytesDivShift(BytesLow(BytesAdd(st.r, st.r, bit), Len(dd)), dd, i, st)

\* The steps for the eight bits of digit k of the dividend, highest first. The
\* tuple has each state computed before the step after it.
BytesDivDigit(digit, dd, k, st) ==
    LET b7 == BytesDivStep((digit \div 128) % 2, dd, 8 * (k - 1) + 7, st)
        b6 == BytesDivStep((digit \div 64) % 2, dd, 8 * (k - 1) + 6, b7)
        b5 == BytesDivStep((digit \div 32) % 2, dd, 8 * (k - 1) + 5, b6)
        b4 == BytesDivStep((digit \div 16) % 2, dd, 8 * (k - 1) + 4, b5)
        b3 == BytesDivStep((digit \div 8) % 2, dd, 8 * (k - 1) + 3, b4)
        b2 == BytesDivStep((digit \div 4) % 2, dd, 8 * (k - 1) + 2, b3)
        b1 == BytesDivStep((digit \div 2) % 2, dd, 8 * (k - 1) + 1, b2)
    IN <<b7, b6, b5, b4, b3, b2, b1, BytesDivStep(digit % 2, dd, 8 * (k - 1), b1)>>[8]

RECURSIVE BytesDivRange(_, _, _, _, _)
\* binary long division of dn by dd (padded to one digit more than its
\* length): the steps for the digits hi .. lo of the dividend, highest first,
\* folded by halves; the remainder stays below dd
BytesDivRange(dn, dd, hi, lo, st) ==
    IF lo = hi THEN BytesDivDigit(dn[lo], dd, lo, st)
    ELSE LET half == BytesDivRange(dn, dd, hi, ((lo + hi) \div 2) + 1, st)
         IN <<half, BytesDivRange(dn, dd, (lo + hi) \div 2, lo, half)>>[2]

\* [q, r] with num = q * den + r and r < den, for den # 0
BytesDivMod(num, den) ==
    BytesDivRange(num, BytesPad(den, Len(den) + 1), Len(num), 1,
                  [q |-> BytesPad(<<>>, Len(num)), r |-> BytesPad(<<>>, Len(den) + 1)])
\* num % den, with Len(den) digits
BytesRem(num, den) == BytesLow(BytesDivMod(num, den).r, Len(den))
\* num / den, with Len(num) digits
BytesDiv(num, den) == BytesDivMod(num, den).q

\* The u64 operators on results: an operand that unwound makes the operation
\* unwind. `wrap` is the build profile: with overflow checks (debug) an
\* overflowing operation panics, without them (release) it wraps.
\* The operators take the short way where the limbs decide the result.
\* The number of 16-bit limbs of a up to its highest non-zero one
U64Limbs(a) ==
    IF a[4] # 0 THEN 4 ELSE IF a[3] # 0 THEN 3 ELSE IF a[2] # 0 THEN 2
    ELSE IF a[1] # 0 THEN 1 ELSE 0
\* a < 2^15
U64Small(a) == U64Limbs(a) <= 1 /\ a[1] < 32768
U64_lt(a, b) == BytesLess(U64Bytes(a), U64Bytes(b))
U64_mul(ra, rb, wrap) ==
    IF ra.panic \/ rb.panic THEN Panic
    ELSE LET m == BytesMul(U64Bytes(ra.v), U64Bytes(rb.v))
         IN IF wrap \/ BytesIsZero(BytesHigh(m, 8)) THEN Ok(BytesU64(BytesLow(m, 8)))
            ELSE Panic
U64_add(ra, rb, wrap) ==
    IF ra.panic \/ rb.panic THEN Panic
    ELSE LET s == BytesAdd(U64Bytes(ra.v), U64Bytes(rb.v), 0)
         IN IF wrap \/ s[9] = 0 THEN Ok(BytesU64(BytesLow(s, 8))) ELSE Panic
U64_sub(ra, rb, wrap) ==
    IF ra.panic \/ rb.panic THEN Panic
    ELSE IF U64Limbs(rb.v) <= 1 /\ ra.v[1] >= rb.v[1]
    THEN Ok([ra.v EXCEPT ![1] = @ - rb.v[1]])
    ELSE IF ~U64_lt(ra.v, rb.v) THEN Ok(BytesU64(BytesSub(U64Bytes(ra.v), U64Bytes(rb.v))))
    ELSE IF wrap
    THEN Ok(BytesU64(BytesLow(BytesSub(Append(U64Bytes(ra.v), 1), Append(U64Bytes(rb.v), 0)), 8)))
    ELSE Panic
\* a % b and a / b panic on b = 0 in every build
U64_rem(ra, rb) ==
    IF ra.panic \/ rb.panic THEN Panic
    ELSE IF rb.v = ZeroU64 THEN Panic
    ELSE Ok(BytesU64(BytesRem(U64Bytes(ra.v), U64Bytes(rb.v))))
U64_div(ra, rb) ==
    IF ra.panic \/ rb.panic THEN Panic
    ELSE IF rb.v = ZeroU64 THEN Panic
    ELSE Ok(BytesU64(BytesDiv(U64Bytes(ra.v), U64Bytes(rb.v))))
\* a.checked_mul(b): Option<u64>. With la and lb limbs, a b >= 2^(16 (la + lb - 2)),
\* which does not fit when la + lb >= 6; the digits of the operands are
\* evaluated once.
U64_checked_mul(a, b) ==
    IF U64Limbs(a) = 0 THEN Some(ZeroU64)
    ELSE IF U64Limbs(b) = 0 THEN Some(ZeroU64)
    ELSE IF U64Limbs(a) + U64Limbs(b) >= 6 THEN None
    ELSE IF U64Small(a) /\ U64Small(b) THEN Some(U64Of(a[1] * b[1]))
    ELSE
    CHOOSE r \in { IF BytesIsZero(BytesHigh(m, 8)) THEN Some(BytesU64(BytesLow(m, 8)))
                   ELSE None : m \in {BytesMul(U64Bytes(a), U64Bytes(b))} } : TRUE

\* ------------------------------------------------- utils on the u64 range
\* The loops of utils on u64 values run on a record of their locals with the
\* field `at` ("loop", "done" or "panic"), and are folded by quarters: 4^n
\* turns are four times 4^(n - 1) turns, each on the result of the one before
\* (the tuple has them computed in that order). Euclid's algorithm on values
\* below 2^64 takes fewer than 4^LoopFold turns, and so does the doubling of a
\* value up to 2^64.
LoopFold == 4

\* let mut r = a % b; while r > 0 { a = b; b = r; r = a % b; }
GcdTurn_u64(st, r) ==
    IF r # ZeroU64 THEN [at |-> "loop", a |-> st.b, b |-> r]
    ELSE [st EXCEPT !.at = "done"]

RECURSIVE GcdLoop_u64(_, _)
GcdLoop_u64(n, st) ==
    CASE st.at # "loop" -> st
      [] n = 0 -> GcdTurn_u64(st, U64_rem(Ok(st.a), Ok(st.b)).v)
      [] OTHER -> LET s1 == GcdLoop_u64(n - 1, st)
                      s2 == GcdLoop_u64(n - 1, s1)
                      s3 == GcdLoop_u64(n - 1, s2)
                  IN <<s1, s2, s3, GcdLoop_u64(n - 1, s3)>>[4]

\* utils::gcd on u64 values
gcd_u64(a, b) ==
    IF a = ZeroU64 \/ b = ZeroU64 THEN Panic
    ELSE Ok(GcdLoop_u64(LoopFold, [at |-> "loop", a |-> a, b |-> b]).b)

\* p_vec.push(p1 * q + p2); q_vec.push(q1 * q + q2), with a = b and b = r
WeightsPush_u64(b, r, pv, qv, np, nq) ==
    IF np.panic \/ nq.panic THEN [at |-> "panic", a |-> b, b |-> r, pv |-> pv, qv |-> qv]
    ELSE [at |-> "loop", a |-> b, b |-> r, pv |-> Append(pv, np.v), qv |-> Append(qv, nq.v)]

\* the sums for q = a / b
WeightsStep_u64(b, r, pv, qv, q, wrap) ==
    WeightsPush_u64(b, r, pv, qv,
        U64_add(U64_mul(Ok(pv[Len(pv)]), q, wrap), Ok(pv[Len(pv) - 1]), wrap),
        U64_add(U64_mul(Ok(qv[Len(qv)]), q, wrap), Ok(qv[Len(qv) - 1]), wrap))

\* while r > 0 { a = b; b = r; q = a / b; ..; r = a % b; }
WeightsTurn_u64(st, r, wrap) ==
    IF r # ZeroU64
    THEN WeightsStep_u64(st.b, r, st.pv, st.qv, U64_div(Ok(st.b), Ok(r)), wrap)
    ELSE [st EXCEPT !.at = "done"]

RECURSIVE WeightsLoop_u64(_, _, _)
WeightsLoop_u64(n, st, wrap) ==
    CASE st.at # "loop" -> st
      [] n = 0 -> WeightsTurn_u64(st, U64_rem(Ok(st.a), Ok(st.b)).v, wrap)
      [] OTHER -> LET s1 == WeightsLoop_u64(n - 1, st, wrap)
                      s2 == WeightsLoop_u64(n - 1, s1, wrap)
                      s3 == WeightsLoop_u64(n - 1, s2, wrap)
                  IN <<s1, s2, s3, WeightsLoop_u64(n - 1, s3, wrap)>>[4]

\* (p_vec[p_vec.len() - 2], q_vec[q_vec.len() - 2])
WeightsEnd_u64(st) ==
    IF st.at = "panic" THEN Panic
    ELSE Ok(<<st.pv[Len(st.pv) - 1], st.qv[Len(st.qv) - 1]>>)

\* utils::gcd_weights on u64 values
gcd_weights_u64(a, b, wrap) ==
    IF b = ZeroU64 THEN Panic
    ELSE WeightsEnd_u64(
            WeightsLoop_u64(LoopFold,
                            [at |-> "loop", a |-> a, b |-> b,
                             pv |-> <<U64Of(1), U64_div(Ok(a), Ok(b)).v>>,
                             qv |-> <<ZeroU64, U64Of(1)>>], wrap))

\* while m < t { m += m }: a sum that wraps to zero is never again >= t, and
\* the call does not return
DoubleTurn_u64(st, t, sum) ==
    IF ~U64_lt(st.m, t) THEN [st EXCEPT !.at = "done"]
    ELSE IF st.m = ZeroU64 THEN [st EXCEPT !.at = "panic"]
    ELSE IF sum.panic THEN [st EXCEPT !.at = "panic"]
    ELSE [at |-> "loop", m |-> sum.v]

RECURSIVE DoubleLoop_u64(_, _, _, _)
DoubleLoop_u64(n, st, t, wrap) ==
    CASE st.at # "loop" -> st
      [] n = 0 -> DoubleTurn_u64(st, t, U64_add(Ok(st.m), Ok(st.m), wrap))
      [] OTHER -> LET s1 == DoubleLoop_u64(n - 1, st, t, wrap)
                      s2 == DoubleLoop_u64(n - 1, s1, t, wrap)
                      s3 == DoubleLoop_u64(n - 1, s2, t, wrap)
                  IN <<s1, s2, s3, DoubleLoop_u64(n - 1, s3, t, wrap)>>[4]

DoubleEnd_u64(st) == IF st.at = "panic" THEN Panic ELSE Ok(st.m)

DoubleUntil_u64(m, t, wrap) ==
    DoubleEnd_u64(DoubleLoop_u64(LoopFold, [at |-> "loop", m |-> m], t, wrap))

\* assert_eq!((v * v_inv) % m, d); v_inv
InvChecked_u64(m, v, d, v_inv, wrap) ==
    IF m.panic \/ v_inv.panic THEN Panic
    ELSE IF U64_rem(U64_mul(Ok(v), v_inv, wrap), m) = Ok(d) THEN v_inv
    ELSE Panic

\* (m - t) % m after the doubling of m
InvDoubled_u64(m2, v, d, t, wrap) ==
    InvChecked_u64(m2, v, d, U64_rem(U64_sub(m2, Ok(t), wrap), m2), wrap)

\* The branches of gcd_mul_inverse on the four products
InvBranches_u64(m, v, d, s, t, ms, vt, mt, vs, wrap) ==
    IF ms.panic \/ vt.panic THEN Panic
    ELSE IF U64_lt(vt.v, ms.v) /\ U64_sub(ms, vt, wrap) = Ok(d)
    THEN InvDoubled_u64(DoubleUntil_u64(m, t, wrap), v, d, t, wrap)
    ELSE IF mt.panic \/ vs.panic THEN Panic
    ELSE IF U64_lt(vs.v, mt.v) /\ U64_sub(mt, vs, wrap) = Ok(d)
    THEN InvDoubled_u64(DoubleUntil_u64(m, s, wrap), v, d, s, wrap)
    ELSE IF U64_lt(ms.v, vt.v) /\ U64_sub(vt, ms, wrap) = Ok(d)
    THEN InvChecked_u64(Ok(m), v, d, U64_rem(Ok(t), Ok(m)), wrap)
    ELSE InvChecked_u64(Ok(m), v, d, U64_rem(Ok(s), Ok(m)), wrap)

\* utils::gcd_mul_inverse on u64 values
gcd_mul_inverse_u64(m, v, d, s, t, wrap) ==
    InvBranches_u64(m, v, d, s, t,
                    U64_mul(Ok(m), Ok(s), wrap), U64_mul(Ok(v), Ok(t), wrap),
                    U64_mul(Ok(m), Ok(t), wrap), U64_mul(Ok(v), Ok(s), wrap), wrap)

\* utils::miller_rabin on u64 values runs as a sequence of loop turns; st
\* holds the locals of fast_power (g, e, r), then those of miller_rabin (a, i),
\* and the build profile `wrap`.
RECURSIVE OddPart_u64(_)
\* while q % 2 == 0 { q /= 2; k += 1 }
OddPart_u64(q) ==
    IF q[1] % 2 = 0 THEN OddPart_u64(U64_div(Ok(q), Ok(U64Of(2))).v) ELSE q
RECURSIVE TwoExp_u64(_)
TwoExp_u64(q) ==
    IF q[1] % 2 = 0 THEN 1 + TwoExp_u64(U64_div(Ok(q), Ok(U64Of(2))).v) ELSE 0

\* miller_rabin up to the call of fast_power(a, q, n): Ok(Some(true)) when n is
\* even or gcd(a, n) is a proper divisor, else Ok(None) with the locals st
miller_rabin_start_u64(n, a, d, wrap) ==
    IF d.panic THEN Panic
    ELSE IF n[1] % 2 = 0 THEN Ok(Some(TRUE))
    ELSE IF U64_lt(U64Of(1), d.v) /\ U64_lt(d.v, n) THEN Ok(Some(TRUE))
    ELSE [panic |-> FALSE, v |-> None, st |->
            [phase |-> "power", wrap |-> wrap, n |-> n, g |-> a,
             e |-> OddPart_u64(U64_sub(Ok(n), Ok(U64Of(1)), wrap).v), r |-> U64Of(1),
             k |-> TwoExp_u64(U64_sub(Ok(n), Ok(U64Of(1)), wrap).v), i |-> 0]]

\* The locals after r *= g; r %= n (for odd e) have given r2 and g *= g;
\* g %= n has given g2
PowAssign_u64(st, r2, g2) ==
    IF r2.panic \/ g2.panic THEN Panic
    ELSE Ok([st EXCEPT !.r = r2.v, !.g = g2.v,
                       !.e = U64_div(Ok(st.e), Ok(U64Of(2))).v])

\* One turn of the loop of fast_power (e > 0)
PowTurn_u64(st) ==
    PowAssign_u64(st,
        IF st.e[1] % 2 = 1 THEN U64_rem(U64_mul(Ok(st.r), Ok(st.g), st.wrap), Ok(st.n))
        ELSE Ok(st.r),
        U64_rem(U64_mul(Ok(st.g), Ok(st.g), st.wrap), Ok(st.n)))

\* a *= a; a %= n has given a2
SquareAssign_u64(st, a2) ==
    IF a2.panic THEN Panic ELSE Ok([st EXCEPT !.r = a2.v, !.i = st.i + 1])

\* One turn of for i in 0..k (i < k, a % n != n - 1); a is held in r
SquareTurn_u64(st) ==
    SquareAssign_u64(st, U64_rem(U64_mul(Ok(st.r), Ok(st.r), st.wrap), Ok(st.n)))

\* Ok of a triple of results, or Panic when one of them unwound
Triple(rx, ra, rb) ==
    IF rx.panic \/ ra.panic \/ rb.panic THEN Panic ELSE Ok(<<rx.v, ra.v, rb.v>>)

\* PollardsLog::mix on the whole u64 range: self.p, self.g, self.h, x, a, b
\* are u64 values.
PollardsLog_mix_u64(self, x, a, b, wrap) ==
    LET p == Ok(self.p)
        one == Ok(U64Of(1))
        two == Ok(U64Of(2))
        pm1 == U64_sub(p, one, wrap)
        third == U64_div(p, Ok(U64Of(3)))
    IN IF U64_lt(x, third.v) THEN
        Triple(U64_rem(U64_mul(Ok(self.g), Ok(x), wrap), p),
               U64_rem(U64_add(Ok(a), one, wrap), pm1), Ok(b))
    ELSE LET twothirds == U64_div(U64_mul(two, p, wrap), Ok(U64Of(3))) IN
    IF twothirds.panic THEN Panic
    ELSE IF U64_lt(x, twothirds.v) THEN
        Triple(U64_rem(U64_mul(Ok(x), Ok(x), wrap), p),
               U64_rem(U64_mul(two, Ok(a), wrap), pm1),
               U64_rem(U64_mul(two, Ok(b), wrap), pm1))
    ELSE
        Triple(U64_rem(U64_mul(Ok(self.h), Ok(x), wrap), p), Ok(a),
               U64_rem(U64_add(Ok(b), one, wrap), pm1))

\* PollardsLog::new for u64 arguments
PollardsLog_new_u64(p, g, h) ==
    [p |-> p, g |-> g, h |-> h, i |-> 0, xi |-> U64Of(1), yi |-> U64Of(1),
     ai |-> ZeroU64, bi |-> ZeroU64, gi |-> ZeroU64, di |-> ZeroU64, finished |-> FALSE]

\* The second application of mix to the hare, on the result h1 of the first
PollardsLog_hare_u64(self, h1, wrap) ==
    IF h1.panic THEN Panic
    ELSE PollardsLog_mix_u64(self, h1.v[1], h1.v[2], h1.v[3], wrap)

\* Some(PollardsLogItem { .. }) of the walk s
PollardsLog_item(s) ==
    Some([i |-> s.i, xi |-> s.xi, ai |-> s.ai, bi |-> s.bi,
          yi |-> s.yi, gi |-> s.gi, di |-> s.di])

\* The assignments of next() from the tortoise's triple t and the hare's
\* triple h2
PollardsLog_advance(self, t, h2) ==
    [self EXCEPT !.xi = t[1], !.ai = t[2], !.bi = t[3],
                 !.yi = h2[1], !.gi = h2[2], !.di = h2[3],
                 !.i = self.i + 1,
                 !.finished = (t[1] = h2[1])]

PollardsLog_yield(s) == [panic |-> FALSE, self |-> s, item |-> PollardsLog_item(s)]

PollardsLog_step_u64(self, t, h2) ==
    IF t.panic \/ h2.panic THEN Panic
    ELSE PollardsLog_yield(PollardsLog_advance(self, t.v, h2.v))

\* impl Iterator for PollardsLog on the whole u64 range: [panic, self, item]
PollardsLog_next_u64(self, wrap) ==
    IF self.finished THEN [panic |-> FALSE, self |-> self, item |-> None]
    ELSE PollardsLog_step_u64(
            self,
            PollardsLog_mix_u64(self, self.xi, self.ai, self.bi, wrap),
            PollardsLog_hare_u64(
                self, PollardsLog_mix_u64(self, self.yi, self.gi, self.di, wrap), wrap))

\* ----------------------------------------------------------- PollardsRSAFact
\* PollardsRSAFact::new(n) for a u64 n:
\* assert!((n - 1).checked_mul(n - 1).is_some()) unwinds when the square does
\* not fit. For n = 0, n - 1 panics with overflow checks and is 2^64 - 1
\* without them, whose square does not fit: the constructor unwinds in both
\* builds. The walk of an accepted modulus works on naturals.
PollardsRSAFact_new(n) ==
    CHOOSE walk \in
        { IF ~U64_checked_mul(nm1, nm1).some THEN Panic
          ELSE Ok([n |-> U64Val(n), i |-> 0, xi |-> 1, yi |-> 1,
                   factor |-> None, finished |-> FALSE])
          : nm1 \in {U64_sub(Ok(n), Ok(U64Of(1)), TRUE).v} } : TRUE

\* PollardsRSAFact::mix
PollardsRSAFact_mix(self, x) == (((x * x) % self.n) + 1) % self.n

AbsDiff(a, b) == IF a >= b THEN a - b ELSE b - a

\* A variant of PollardsRSAFact::next without the early return of a finished
\* walk.
PollardsRSAFact_next_unfused(self) ==
    LET x2 == PollardsRSAFact_mix(self, self.xi)
        y2 == PollardsRSAFact_mix(self, PollardsRSAFact_mix(self, self.yi))
        g == gcd(AbsDiff(x2, y2), self.n)
    IN IF g.panic THEN Panic ELSE
    LET hit == g.v # 1 /\ self.n % g.v = 0
        s2 == [self EXCEPT !.i = self.i + 1, !.xi = x2, !.yi = y2,
                           !.finished = hit,
                           !.factor = IF hit THEN Some(g.v) ELSE self.factor]
    IN [panic |-> FALSE, self |-> s2,
        item |-> Some([i |-> s2.i, xi |-> x2, yi |-> y2, g |-> g.v, n |-> self.n])]

\* A variant of PollardsRSAFact::next that leaves out the test g != 1.
PollardsRSAFact_next_any_g(self) ==
    IF self.finished THEN [panic |-> FALSE, self |-> self, item |-> None]
    ELSE
    LET x2 == PollardsRSAFact_mix(self, self.xi)
        y2 == PollardsRSAFact_mix(self, PollardsRSAFact_mix(self, self.yi))
        g == gcd(AbsDiff(x2, y2), self.n)
    IN IF g.panic THEN Panic ELSE
    LET hit == self.n % g.v = 0
        s2 == [self EXCEPT !.i = self.i + 1, !.xi = x2, !.yi = y2,
                           !.finished = hit,
                           !.factor = IF hit THEN Some(g.v) ELSE self.factor]
    IN [panic |-> FALSE, self |-> s2,
        item |-> Some([i |-> s2.i, xi |-> x2, yi |-> y2, g |-> g.v, n |-> self.n])]

\* A variant of PollardsRSAFact::next whose hare takes three applications of
\* mix per step.
PollardsRSAFact_next_hare3(self) ==
    IF self.finished THEN [panic |-> FALSE, self |-> self, item |-> None]
    ELSE
    LET x2 == PollardsRSAFact_mix(self, self.xi)
        y2 == PollardsRSAFact_mix(self,
                  PollardsRSAFact_mix(self, PollardsRSAFact_mix(self, self.yi)))
        g == gcd(AbsDiff(x2, y2), self.n)
    IN IF g.panic THEN Panic ELSE
    LET hit == g.v # 1 /\ self.n % g.v = 0
        s2 == [self EXCEPT !.i = self.i + 1, !.xi = x2, !.yi = y2,
                           !.finished = hit,
                           !.factor = IF hit THEN Some(g.v) ELSE self.factor]
    IN [panic |-> FALSE, self |-> s2,
        item |-> Some([i |-> s2.i, xi |-> x2, yi |-> y2, g |-> g.v, n |-> self.n])]

\* impl Iterator for PollardsRSAFact: [panic, self, item]
PollardsRSAFact_next(self) ==
    IF self.finished THEN [panic |-> FALSE, self |-> self, item |-> None]
    ELSE
    LET x2 == PollardsRSAFact_mix(self, self.xi)
        y2 == PollardsRSAFact_mix(self, PollardsRSAFact_mix(self, self.yi))
        g == gcd(AbsDiff(x2, y2), self.n)
    IN IF g.panic THEN Panic ELSE
    LET hit == g.v # 1 /\ self.n % g.v = 0
        s2 == [self EXCEPT !.i = self.i + 1, !.xi = x2, !.yi = y2,
                           !.finished = hit,
                           !.factor = IF hit THEN Some(g.v) ELSE self.factor]
    IN [panic |-> FALSE, self |-> s2,
        item |-> Some([i |-> s2.i, xi |-> x2, yi |-> y2, g |-> g.v, n |-> self.n])]

\* PollardsRSAFact::factor: self.factor.take() returns the factor and leaves
\* None in its place.
PollardsRSAFact_factor(self) == [self |-> [self EXCEPT !.factor = None], v |-> self.factor]

\* ================================================================== server
VARIABLES
    apc,      \* accept_loop: "accept", "await" (broker_handle.await), "done"
    ares,     \* accept_loop's result: "none", "Ok", "Err"
    rpc,      \* reader task per peer: "unborn", "send", "read", "ok", "err", "panicked"
    rev,      \* the event a reader is sending (broker_send.send(event).await)
    rseq,     \* number of request frames a reader has decoded
    budget,   \* number of request frames the clients still send
    menu,     \* the requests the clients choose from
    token,    \* per peer: the connection's CancellationToken is cancelled
    events,   \* the reader-to-broker channel, channel::<Event>(buf_size)
    bpc,      \* main_broker: "select", "prime", "send", "drain", "done"
    bres,     \* main_broker's result: "none", "Ok", an error kind, or "panic"
    bcur,     \* what the broker is awaiting (the blocking test, a pending send)
    blast,    \* the event the broker took last, and whether its peer was registered
    clients,  \* the registry: peer ids mapped to a Sender<Response>
    respq,    \* per peer: the broker-to-writer channel, channel::<Response>(buf_size)
    rx,       \* per peer, where the Receiver<Response> is: "none", "writer", "harvest", "dropped"
    harvest,  \* the writer-to-broker channel, unbounded_channel()
    wpc,      \* writer task per peer: "none", "select", "write", "exited", "panicked"
    wres,     \* writer task's result: "none", "Ok" or an error kind
    wcur,     \* the response a writer has dequeued and is writing
    out,      \* per peer: the frames written to the socket, in order
    cpc,      \* codec round trip: "idle"; "frame", "tag", "back"; "response", "rtag", "rback"
    cframe,   \* the Frame handed to serialize
    ctag,     \* its serialization
    cback,    \* what deserialize makes of the serialization
    epc,      \* engine call sequence: "idle"; "new", "walk", "panicked"
    ein,      \* the arguments handed to the constructor of the walk
    ewalk,    \* the walk: None before construction, Some(PollardsLog / PollardsRSAFact)
    eop,      \* the method called last: "none", "new", "next", "solve", "factor"
    eret,     \* what the last next(), solve() or factor() returned
    ipc,      \* Client::connect: "idle"; "receive", "parse", "done"
    iface,    \* the Interface: "Init", "Home", "Quit", "Prime", "Log", "RSA", "ReturnHome"
    ires,     \* Client::connect's result: "none", "Ok", a ClientError kind, or "panic"
    isent,    \* the byte strings the client has written to the server, in order
    iloop,    \* turns taken of the loop the interface is in (frames read, prompts shown)
    ifeed     \* the client's peer: "protocol" (answers as the server does) or "any"

vars == <<apc, ares, rpc, rev, rseq, budget, menu, token, events, bpc, bres, bcur, blast,
          clients, respq, rx, harvest, wpc, wres, wcur, out,
          cpc, cframe, ctag, cback, epc, ein, ewalk, eop, eret,
          ipc, iface, ires, isent, iloop, ifeed>>

NoEvent == [kind |-> "none"]
NoCur == [kind |-> "none"]

\* The request frames the clients of this model send, as Frame values.
ClientFrames ==
    << [kind |-> "Log", g |-> U64Of(2), h |-> U64Of(4), p |-> U64Of(7)],
       [kind |-> "Prime", p |-> U64Of(3)],
       [kind |-> "RSA", n |-> U64Of(15), e |-> U64Of(3)],
       [kind |-> "Quit"],
       [kind |-> "Log", g |-> U64Of(1), h |-> U64Of(1), p |-> U64Of(3)],
       [kind |-> "Prime", p |-> U64Of(2)],
       [kind |-> "RSA", n |-> <<1, 0, 1, 0>>, e |-> U64Of(3)],
       [kind |-> "RSA", n |-> U64Of(15), e |-> U64Of(5)] >>

\* What a socket delivers as one 25-byte request: the serialized k-th client
\* frame, or for k = 0 a buffer whose tag byte names no variant.
WireInput(k) ==
    IF k = 0 THEN [ZeroTag EXCEPT ![1] = 9] ELSE Frame_serialize(ClientFrames[k])

\* The requests the clients choose from in one behaviour.
Menus == { {0, 1, 2, 3, 4}, {4, 5, 6, 7, 8} }

ServerInit ==
    /\ apc = "accept" /\ ares = "none"
    /\ rpc = [c \in Peers |-> "unborn"]
    /\ rev = [c \in Peers |-> NoEvent]
    /\ rseq = [c \in Peers |-> 0]
    /\ token = [c \in Peers |-> FALSE]
    /\ events = <<>>
    /\ bpc = "select" /\ bres = "none" /\ bcur = NoCur
    /\ blast = [kind |-> "none", known |-> TRUE]
    /\ clients = {}
    /\ respq = [c \in Peers |-> <<>>]
    /\ rx = [c \in Peers |-> "none"]
    /\ harvest = <<>>
    /\ wpc = [c \in Peers |-> "none"]
    /\ wres = [c \in Peers |-> "none"]
    /\ wcur = [c \in Peers |-> NoCur]
    /\ out = [c \in Peers |-> <<>>]

CodecIdle ==
    /\ cpc = "idle" /\ cframe = [kind |-> "none"] /\ ctag = <<>> /\ cback = Panic

EngineIdle ==
    /\ epc = "idle" /\ ein = [kind |-> "none"] /\ ewalk = None
    /\ eop = "none" /\ eret = None

ClientIdle ==
    /\ ipc = "idle" /\ iface = "Init" /\ ires = "none"
    /\ isent = <<>> /\ iloop = 0 /\ ifeed = "protocol"

Init ==
    /\ ServerInit
    /\ budget = MaxFrames
    /\ menu \in Menus
    /\ CodecIdle
    /\ EngineIdle
    /\ ClientIdle

avars == <<apc, ares>>
rvars == <<rpc, rev, rseq, budget, menu, token>>
bvars == <<bpc, bres, bcur, blast, clients>>
wvars == <<wpc, wres, wcur, out>>
cvars == <<cpc, cframe, ctag, cback>>
evars == <<epc, ein, ewalk, eop, eret>>
ivars == <<ipc, iface, ires, isent, iloop, ifeed>>
svars == <<apc, ares, rpc, rev, rseq, budget, menu, token, events, bpc, bres, bcur,
           blast, clients, respq, rx, harvest, wpc, wres, wcur, out>>

\* -------------------------------------------------------- client_read_task
ReaderExited(c) == rpc[c] \in {"ok", "err", "panicked"}

\* How client_read_task ended: it returned Ok(()), it returned Err(..), or it
\* unwound and returned nothing.
ReaderResult(c) ==
    CASE rpc[c] = "ok" -> "Ok"
      [] rpc[c] = "err" -> "Err"
      [] rpc[c] = "panicked" -> "unwound"
      [] OTHER -> "running"

\* The reader met a tag byte other than 1, 2, 3, 4: the panic! of
\* Frame::deserialize is the only place where client_read_task unwinds.
ReadUnknownTag(c) == rpc[c] = "panicked"

\* Every Sender<Event> is dropped: the accept loop's and every reader's clone.
EventSendersDropped ==
    /\ apc # "accept"
    /\ \A c \in Peers : IF rpc[c] = "unborn" THEN TRUE ELSE ReaderExited(c)

\* A variant of the event send on a channel without a capacity: the event is
\* queued whatever the channel holds.
ReaderSendEvent_unbounded(c, ev) ==
    IF bpc = "done" THEN
        /\ rpc' = [rpc EXCEPT ![c] = "err"]
        /\ token' = [token EXCEPT ![c] = TRUE]
        /\ rev' = [rev EXCEPT ![c] = NoEvent]
        /\ UNCHANGED events
    ELSE
        /\ events' = Append(events, ev)
        /\ rpc' = [rpc EXCEPT ![c] = IF ev.kind = "Quit" THEN "ok" ELSE "read"]
        /\ token' = [token EXCEPT ![c] = (ev.kind = "Quit")]
        /\ rev' = [rev EXCEPT ![c] = NoEvent]

\* A variant of the event send after which the reader goes on reading
\* whatever the event is: the loop has no break on Quit.
ReaderSendEvent_no_break(c, ev) ==
    IF bpc = "done" THEN
        /\ rpc' = [rpc EXCEPT ![c] = "err"]
        /\ token' = [token EXCEPT ![c] = TRUE]
        /\ rev' = [rev EXCEPT ![c] = NoEvent]
        /\ UNCHANGED events
    ELSE IF Len(events) < BufSize THEN
        /\ events' = Append(events, ev)
        /\ rpc' = [rpc EXCEPT ![c] = "read"]
        /\ rev' = [rev EXCEPT ![c] = NoEvent]
        /\ UNCHANGED token
    ELSE
        /\ rpc' = [rpc EXCEPT ![c] = "send"]
        /\ rev' = [rev EXCEPT ![c] = ev]
        /\ UNCHANGED <<events, token>>

\* broker_send.send(ev).await: fails once the broker has dropped the
\* receiver (map_err(ChannelSend)?), completes when the channel has room,
\* suspends while it is full.  After a Quit event the reader breaks out of
\* its loop and returns Ok(()); every return drops the guard _token, which
\* cancels the token.
ReaderSendEvent(c, ev) ==
    IF bpc = "done" THEN
        /\ rpc' = [rpc EXCEPT ![c] = "err"]
        /\ token' = [token EXCEPT ![c] = TRUE]
        /\ rev' = [rev EXCEPT ![c] = NoEvent]
        /\ UNCHANGED events
    ELSE IF Len(events) < BufSize THEN
        /\ events' = Append(events, ev)
        /\ rpc' = [rpc EXCEPT ![c] = IF ev.kind = "Quit" THEN "ok" ELSE "read"]
        /\ token' = [token EXCEPT ![c] = (ev.kind = "Quit")]
        /\ rev' = [rev EXCEPT ![c] = NoEvent]
    ELSE
        /\ rpc' = [rpc EXCEPT ![c] = "send"]
        /\ rev' = [rev EXCEPT ![c] = ev]
        /\ UNCHANGED <<events, token>>

\* A send the reader is suspended in resumes.
ReaderSend(c) ==
    /\ rpc[c] = "send"
    /\ (IF bpc = "done" THEN TRUE ELSE Len(events) < BufSize)
    /\ ReaderSendEvent(c, rev[c])
    /\ UNCHANGED <<avars, rseq, budget, menu, bvars, respq, rx, harvest, wvars>>
    /\ UNCHANGED <<cvars, evars, ivars>>

\* A variant of the match on the frame that takes the exponent of an RSA
\* frame for its modulus.
EventOf_exponent(c, frame, req) ==
    CASE frame.kind = "Log" ->
            [kind |-> "Log", peer_id |-> c, req |-> req,
             g |-> U64Val(frame.g), h |-> U64Val(frame.h), p |-> U64Val(frame.p)]
      [] frame.kind = "RSA" ->
            [kind |-> "RSA", peer_id |-> c, req |-> req, n |-> frame.e]
      [] frame.kind = "Prime" ->
            [kind |-> "Prime", peer_id |-> c, req |-> req, p |-> U64Val(frame.p)]
      [] frame.kind = "Quit" -> [kind |-> "Quit", peer_id |-> c, req |-> req]

\* The event client_read_task builds from a decoded frame.
EventOf(c, frame, req) ==
    CASE frame.kind = "Log" ->
            [kind |-> "Log", peer_id |-> c, req |-> req,
             g |-> U64Val(frame.g), h |-> U64Val(frame.h), p |-> U64Val(frame.p)]
      [] frame.kind = "RSA" ->
            [kind |-> "RSA", peer_id |-> c, req |-> req, n |-> frame.n]
      [] frame.kind = "Prime" ->
            [kind |-> "Prime", peer_id |-> c, req |-> req, p |-> U64Val(frame.p)]
      [] frame.kind = "Quit" -> [kind |-> "Quit", peer_id |-> c, req |-> req]

\* One turn of the reader's loop: Frame::from_reader reads 25 bytes and
\* deserializes them (deserialize panics on an unknown tag byte, which
\* unwinds the reader task), then the event is sent to the broker.
ReaderRead(c) ==
    /\ rpc[c] = "read"
    /\ budget > 0
    /\ \E k \in menu :
        LET frame == Frame_deserialize(WireInput(k)) IN
        IF frame.panic THEN
            /\ rpc' = [rpc EXCEPT ![c] = "panicked"]
            /\ token' = [token EXCEPT ![c] = TRUE]
            /\ UNCHANGED <<rev, rseq, events>>
        ELSE
            /\ ReaderSendEvent(c, EventOf(c, frame.v, rseq[c] + 1))
            /\ rseq' = [rseq EXCEPT ![c] = @ + 1]
    /\ budget' = budget - 1
    /\ UNCHANGED menu
    /\ UNCHANGED <<avars, bvars, respq, rx, harvest, wvars>>
    /\ UNCHANGED <<cvars, evars, ivars>>

\* A variant of the read-error exit in which the guard is leaked
\* (std::mem::forget(_token)): the token stays as it is.
ReaderReadErr_leak(c) ==
    /\ rpc[c] = "read"
    /\ rpc' = [rpc EXCEPT ![c] = "err"]
    /\ UNCHANGED <<avars, rev, rseq, budget, menu, token, events, bvars, respq, rx, harvest, wvars>>
    /\ UNCHANGED <<cvars, evars, ivars>>

\* read_exact fails (the peer closed or reset the connection): Err(Read).
ReaderReadErr(c) ==
    /\ rpc[c] = "read"
    /\ rpc' = [rpc EXCEPT ![c] = "err"]
    /\ token' = [token EXCEPT ![c] = TRUE]
    /\ UNCHANGED <<avars, rev, rseq, budget, menu, events, bvars, respq, rx, harvest, wvars>>
    /\ UNCHANGED <<cvars, evars, ivars>>

\* ------------------------------------------------------------- accept_loop
\* Ok(socket): task::spawn(client_read_task(socket, broker_send.clone())).
\* The reader mints its peer id and its token, and sends NewClient.
AcceptConn(c) ==
    /\ apc = "accept"
    /\ rpc[c] = "unborn"
    /\ \A d \in Peers : d < c => rpc[d] # "unborn"
    /\ ReaderSendEvent(c, [kind |-> "NewClient", peer_id |-> c, req |-> 0])
    /\ UNCHANGED <<avars, rseq, budget, menu, bvars, respq, rx, harvest, wvars>>
    /\ UNCHANGED <<cvars, evars, ivars>>

\* Err(e): the failed accept is logged and the loop goes on.
AcceptErr ==
    /\ apc = "accept"
    /\ UNCHANGED vars

\* The listener stream ends: drop(broker_send), then broker_handle.await.
ListenerEnd ==
    /\ apc = "accept"
    /\ apc' = "await"
    /\ UNCHANGED <<ares, rvars, events, bvars, respq, rx, harvest, wvars>>
    /\ UNCHANGED <<cvars, evars, ivars>>

\* broker_handle.await.map_err(ServerError::Task)??; Ok(())
AcceptJoin ==
    /\ apc = "await"
    /\ bpc = "done"
    /\ apc' = "done"
    /\ ares' = IF bres = "Ok" THEN "Ok" ELSE "Err"
    /\ UNCHANGED <<rvars, events, bvars, respq, rx, harvest, wvars>>
    /\ UNCHANGED <<cvars, evars, ivars>>

\* -------------------------------------------------------------- main_broker
\* main_broker returns or unwinds: its locals are dropped, that is the event
\* receiver (with the events still queued), the registry (every
\* Sender<Response>) and the harvest receiver (with the write halves and
\* response receivers still queued in it).
BrokerExit(res) ==
    /\ bpc' = "done" /\ bres' = res /\ bcur' = NoCur
    /\ clients' = {}
    /\ events' = <<>>
    /\ harvest' = <<>>
    /\ rx' = [c \in Peers |-> IF rx[c] = "harvest" THEN "dropped" ELSE rx[c]]
    /\ respq' = [c \in Peers |-> IF rx[c] = "harvest" THEN <<>> ELSE respq[c]]

\* client_write.send(r).await with evs the events left in the channel: an
\* error once the receiver is dropped (map_err(ChannelSend)?), completion
\* when the queue has room, suspension while it is full.
BrokerSend(c, r, evs) ==
    IF rx[c] = "dropped" THEN BrokerExit("ChannelSend")
    ELSE IF Len(respq[c]) < BufSize THEN
        /\ respq' = [respq EXCEPT ![c] = Append(@, r)]
        /\ bpc' = "select" /\ bcur' = NoCur
        /\ events' = evs
        /\ UNCHANGED <<bres, clients, harvest, rx>>
    ELSE
        /\ bpc' = "send" /\ bcur' = [kind |-> "send", c |-> c, r |-> r]
        /\ events' = evs
        /\ UNCHANGED <<bres, clients, respq, harvest, rx>>

\* A variant of the lookup that finds a sender for every peer id.
Lookup_any(c) == Some(c)

\* clients.get_mut(&peer_id).ok_or(ServerError::IllegalState(..))
Lookup(c) == IF c \in clients THEN Some(c) ELSE None

\* A variant of the NewClient branch that spawns the writer and sends nothing.
BrokerNewClient_silent ==
    /\ bpc = "select"
    /\ events # <<>>
    /\ Head(events).kind = "NewClient"
    /\ LET c == Head(events).peer_id IN
        /\ clients' = clients \cup {c}
        /\ rx' = [rx EXCEPT ![c] = "writer"]
        /\ wpc' = [wpc EXCEPT ![c] = "select"]
        /\ respq' = [respq EXCEPT ![c] = <<>>]
        /\ blast' = [kind |-> "NewClient", known |-> c \in clients]
    /\ events' = Tail(events)
    /\ UNCHANGED <<avars, rvars, bpc, bres, bcur, harvest, wres, wcur, out>>
    /\ UNCHANGED <<cvars, evars, ivars>>

\* Event::NewClient: create the response channel, insert the sender, spawn the
\* writer task, send ConnectionOk (the fresh channel has room).
BrokerNewClient ==
    /\ bpc = "select"
    /\ events # <<>>
    /\ Head(events).kind = "NewClient"
    /\ LET c == Head(events).peer_id IN
        /\ clients' = clients \cup {c}
        /\ rx' = [rx EXCEPT ![c] = "writer"]
        /\ wpc' = [wpc EXCEPT ![c] = "select"]
        /\ respq' = [respq EXCEPT ![c] = <<[kind |-> "ConnectionOk", req |-> 0]>>]
        /\ blast' = [kind |-> "NewClient", known |-> c \in clients]
    /\ events' = Tail(events)
    /\ UNCHANGED <<avars, rvars, bpc, bres, bcur, harvest, wres, wcur, out>>
    /\ UNCHANGED <<cvars, evars, ivars>>

\* Event::Prime: look the peer up, then await the blocking Miller-Rabin task.
BrokerPrime ==
    /\ bpc = "select"
    /\ events # <<>>
    /\ Head(events).kind = "Prime"
    /\ LET ev == Head(events) IN
        /\ blast' = [kind |-> "Prime", known |-> ev.peer_id \in clients]
        /\ IF Lookup(ev.peer_id).some THEN
                /\ bpc' = "prime"
                /\ bcur' = [kind |-> "prime", c |-> ev.peer_id, p |-> ev.p, req |-> ev.req]
                /\ events' = Tail(events)
                /\ UNCHANGED <<bres, clients, respq, harvest, rx>>
           ELSE BrokerExit("IllegalState")
    /\ UNCHANGED <<avars, rvars, wvars>>
    /\ UNCHANGED <<cvars, evars, ivars>>

\* The outcomes of up to 20 rounds with a drawn from 2..p: prime_flag stays
\* true when every drawn a fails to prove p composite, and becomes false when
\* one does.
PrimeOutcomes(p) ==
    { flag \in BOOLEAN :
        \E a \in 2..(p - 1) : miller_rabin(p, a) = ~flag }

\* A Prime arm that sends a variant the writer task has no arm for
BrokerPrimeDone_sends_item ==
    /\ bpc = "prime"
    /\ IF bcur.p <= 2 THEN BrokerExit("Task")
       ELSE \E flag \in PrimeOutcomes(bcur.p) :
            BrokerSend(bcur.c,
                       IF flag THEN [kind |-> "UnsuccessfulRSA", req |-> bcur.req, n |-> bcur.p]
                       ELSE [kind |-> "NotPrime", req |-> bcur.req, p |-> bcur.p],
                       events)
    /\ UNCHANGED <<avars, rvars, blast, wvars>>
    /\ UNCHANGED <<cvars, evars, ivars>>

\* The blocking task returns: rng.gen_range(2..p) panics on the empty range
\* (p <= 2), which the broker receives as a JoinError and returns as
\* ServerError::Task; otherwise it sends Prime{p, prob} or NotPrime{p}.
BrokerPrimeDone ==
    /\ bpc = "prime"
    /\ IF bcur.p <= 2 THEN BrokerExit("Task")
       ELSE \E flag \in PrimeOutcomes(bcur.p) :
            BrokerSend(bcur.c,
                       IF flag THEN [kind |-> "Prime", req |-> bcur.req, p |-> bcur.p,
                                     prob |-> "1.0 - 0.25^20"]
                       ELSE [kind |-> "NotPrime", req |-> bcur.req, p |-> bcur.p],
                       events)
    /\ UNCHANGED <<avars, rvars, blast, wvars>>
    /\ UNCHANGED <<cvars, evars, ivars>>

\* Event::Log: look the peer up, send Response::Log{PollardsLog::new(p, g, h)}.
BrokerLog ==
    /\ bpc = "select"
    /\ events # <<>>
    /\ Head(events).kind = "Log"
    /\ LET ev == Head(events) IN
        /\ blast' = [kind |-> "Log", known |-> ev.peer_id \in clients]
        /\ IF Lookup(ev.peer_id).some THEN
                BrokerSend(ev.peer_id,
                           [kind |-> "Log", req |-> ev.req,
                            pollards |-> PollardsLog_new(ev.p, ev.g, ev.h)],
                           Tail(events))
           ELSE BrokerExit("IllegalState")
    /\ UNCHANGED <<avars, rvars, wvars>>
    /\ UNCHANGED <<cvars, evars, ivars>>

\* Event::RSA: look the peer up, send Response::RSA{PollardsRSAFact::new(n)};
\* the constructor's assertion unwinds the broker task.
BrokerRSA ==
    /\ bpc = "select"
    /\ events # <<>>
    /\ Head(events).kind = "RSA"
    /\ LET ev == Head(events)
           walk == PollardsRSAFact_new(ev.n)
       IN
        /\ blast' = [kind |-> "RSA", known |-> ev.peer_id \in clients, n |-> ev.n]
        /\ IF ~Lookup(ev.peer_id).some THEN BrokerExit("IllegalState")
           ELSE IF walk.panic THEN BrokerExit("panic")
           ELSE BrokerSend(ev.peer_id,
                           [kind |-> "RSA", req |-> ev.req, pollards |-> walk.v],
                           Tail(events))
    /\ UNCHANGED <<avars, rvars, wvars>>
    /\ UNCHANGED <<cvars, evars, ivars>>

\* Event::Quit handled by removing the peer's entry
BrokerQuit_removes_entry ==
    /\ bpc = "select"
    /\ events # <<>>
    /\ Head(events).kind = "Quit"
    /\ blast' = [kind |-> "Quit", known |-> Head(events).peer_id \in clients]
    /\ events' = Tail(events)
    /\ clients' = clients \ {Head(events).peer_id}
    /\ UNCHANGED <<avars, rvars, bpc, bres, bcur, respq, rx, harvest, wvars>>
    /\ UNCHANGED <<cvars, evars, ivars>>

\* Event::Quit: logged only.
BrokerQuit ==
    /\ bpc = "select"
    /\ events # <<>>
    /\ Head(events).kind = "Quit"
    /\ blast' = [kind |-> "Quit", known |-> Head(events).peer_id \in clients]
    /\ events' = Tail(events)
    /\ UNCHANGED <<avars, rvars, bpc, bres, bcur, clients, respq, rx, harvest, wvars>>
    /\ UNCHANGED <<cvars, evars, ivars>>

\* A send the broker is suspended in resumes.
BrokerSendResume ==
    /\ bpc = "send"
    /\ (IF rx[bcur.c] = "dropped" THEN TRUE ELSE Len(respq[bcur.c]) < BufSize)
    /\ BrokerSend(bcur.c, bcur.r, events)
    /\ UNCHANGED <<avars, rvars, blast, wvars>>
    /\ UNCHANGED <<cvars, evars, ivars>>

\* clients.remove(&peer_id).ok_or(IllegalState)?; the write half and the
\* receiver of the harvested triple are dropped.
Harvest(c) ==
    IF c \in clients THEN
        /\ clients' = clients \ {c}
        /\ harvest' = Tail(harvest)
        /\ rx' = [rx EXCEPT ![c] = "dropped"]
        /\ respq' = [respq EXCEPT ![c] = <<>>]
        /\ UNCHANGED <<bpc, bres, bcur, events>>
    ELSE BrokerExit("IllegalState")

\* The select! branch on shutdown_recv; select! takes either ready branch.
BrokerHarvest ==
    /\ bpc = "select"
    /\ harvest # <<>>
    /\ Harvest(Head(harvest))
    /\ UNCHANGED <<avars, rvars, blast, wvars>>
    /\ UNCHANGED <<cvars, evars, ivars>>

\* events.next() yields None: every sender is dropped and the channel is empty.
BrokerEventsClosed ==
    /\ bpc = "select"
    /\ events = <<>>
    /\ EventSendersDropped
    /\ bpc' = "drain"
    /\ UNCHANGED <<avars, rvars, bres, bcur, blast, clients, events, respq, rx, harvest, wvars>>
    /\ UNCHANGED <<cvars, evars, ivars>>

\* while let Some(..) = shutdown_recv.next().await: the broker's own
\* shutdown_send is alive until main_broker returns, so next() never yields
\* None and the loop has no exit but an error.
BrokerDrain ==
    /\ bpc = "drain"
    /\ harvest # <<>>
    /\ Harvest(Head(harvest))
    /\ UNCHANGED <<avars, rvars, blast, wvars>>
    /\ UNCHANGED <<cvars, evars, ivars>>

\* -------------------------------------------------------- client_write_task
\* The spawned block after client_write_task returned res, q being what is
\* left in the response queue: the harvest triple is sent (an unbounded
\* send, which only fails when the broker has dropped the receiver; the
\* triple is then dropped with the error).
WriterExit(c, res, q) ==
    /\ wpc' = [wpc EXCEPT ![c] = "exited"]
    /\ wres' = [wres EXCEPT ![c] = res]
    /\ wcur' = [wcur EXCEPT ![c] = NoCur]
    /\ IF bpc # "done" THEN
            /\ harvest' = Append(harvest, c)
            /\ rx' = [rx EXCEPT ![c] = "harvest"]
            /\ respq' = [respq EXCEPT ![c] = q]
       ELSE /\ rx' = [rx EXCEPT ![c] = "dropped"]
            /\ respq' = [respq EXCEPT ![c] = <<>>]
            /\ UNCHANGED harvest

\* The writer task unwinds: the spawned block's captures (write half,
\* receiver, harvest sender) are dropped and no harvest triple is sent.
WriterPanic(c) ==
    /\ wpc' = [wpc EXCEPT ![c] = "panicked"]
    /\ wres' = [wres EXCEPT ![c] = "panic"]
    /\ wcur' = [wcur EXCEPT ![c] = NoCur]
    /\ rx' = [rx EXCEPT ![c] = "dropped"]
    /\ respq' = [respq EXCEPT ![c] = <<>>]
    /\ UNCHANGED harvest

\* The frame written for one walk step or for the end of a response.
Emit(c, frame) == out' = [out EXCEPT ![c] = Append(@, frame)]

\* The response is written in full: back to select!.
WriterBackToSelect(c, q) ==
    /\ wpc' = [wpc EXCEPT ![c] = "select"]
    /\ wcur' = [wcur EXCEPT ![c] = NoCur]
    /\ respq' = [respq EXCEPT ![c] = q]
    /\ UNCHANGED <<wres, rx, harvest>>

\* A variant of the streaming loop that yields to a response waiting in the
\* queue: the rest of the response being written is put back behind it.
WriterKeepWriting_yield(c, r, q) ==
    /\ wpc' = [wpc EXCEPT ![c] = IF q = <<>> THEN "write" ELSE "select"]
    /\ wcur' = [wcur EXCEPT ![c] = IF q = <<>> THEN r ELSE NoCur]
    /\ respq' = [respq EXCEPT ![c] = IF q = <<>> THEN q ELSE Append(q, r)]
    /\ UNCHANGED <<wres, rx, harvest>>

\* The response r has more frames to write.
WriterKeepWriting(c, r, q) ==
    /\ wpc' = [wpc EXCEPT ![c] = "write"]
    /\ wcur' = [wcur EXCEPT ![c] = r]
    /\ respq' = [respq EXCEPT ![c] = q]
    /\ UNCHANGED <<wres, rx, harvest>>

\* Response::Log{pollards}: one LogItem per item of the walk, then
\* SuccessfulLog or UnsuccessfulLog by pollards.solve().
WriteLog(c, r, q) ==
    LET nx == PollardsLog_next(r.pollards) IN
    IF nx.panic THEN WriterPanic(c) /\ UNCHANGED out
    ELSE IF nx.item.some THEN
        /\ Emit(c, [kind |-> "LogItem", req |-> r.req, item |-> nx.item.v])
        /\ WriterKeepWriting(c, [r EXCEPT !.pollards = nx.self], q)
    ELSE
        LET log == PollardsLog_solve(nx.self) IN
        IF log.panic THEN WriterPanic(c) /\ UNCHANGED out
        ELSE /\ Emit(c, IF log.v.some
                        THEN [kind |-> "SuccessfulLog", req |-> r.req, log |-> log.v.v,
                              g |-> nx.self.g, h |-> nx.self.h, p |-> nx.self.p]
                        ELSE [kind |-> "UnsuccessfulLog", req |-> r.req,
                              g |-> nx.self.g, h |-> nx.self.h, p |-> nx.self.p])
             /\ WriterBackToSelect(c, q)

\* Response::RSA{pollards}: one RSAItem per item of the walk, then
\* SuccessfulRSA or UnsuccessfulRSA by pollards.factor().
WriteRSA(c, r, q) ==
    LET nx == PollardsRSAFact_next(r.pollards) IN
    IF nx.panic THEN WriterPanic(c) /\ UNCHANGED out
    ELSE IF nx.item.some THEN
        /\ Emit(c, [kind |-> "RSAItem", req |-> r.req, item |-> nx.item.v])
        /\ WriterKeepWriting(c, [r EXCEPT !.pollards = nx.self], q)
    ELSE
        LET f == PollardsRSAFact_factor(nx.self).v IN
        /\ Emit(c, IF f.some
                   THEN [kind |-> "SuccessfulRSA", req |-> r.req, p |-> f.v,
                         q |-> nx.self.n \div f.v]
                   ELSE [kind |-> "UnsuccessfulRSA", req |-> r.req, n |-> nx.self.n])
        /\ WriterBackToSelect(c, q)

\* match response { .. }: the next write_all of the response r succeeds.
WriteResponse(c, r, q) ==
    CASE r.kind \in {"ConnectionOk", "NotPrime", "Prime"} ->
            Emit(c, r) /\ WriterBackToSelect(c, q)
      [] r.kind = "Log" -> WriteLog(c, r, q)
      [] r.kind = "RSA" -> WriteRSA(c, r, q)
      [] OTHER -> WriterExit(c, "IllegalResponse", q) /\ UNCHANGED out

\* select!: broker_recv.recv() yields Some(r), and the first write_all of the
\* response succeeds.
WriterRecv(c) ==
    /\ wpc[c] = "select"
    /\ respq[c] # <<>>
    /\ WriteResponse(c, Head(respq[c]), Tail(respq[c]))
    /\ UNCHANGED <<avars, rvars, events, bvars>>
    /\ UNCHANGED <<cvars, evars, ivars>>

\* select!: broker_recv.recv() yields Some(r), and the first write_all of the
\* response fails (the peer closed or reset the connection): Err(Write).
WriterRecvErr(c) ==
    /\ wpc[c] = "select"
    /\ respq[c] # <<>>
    /\ Head(respq[c]).kind \in {"ConnectionOk", "NotPrime", "Prime", "Log", "RSA"}
    /\ WriterExit(c, "Write", Tail(respq[c]))
    /\ UNCHANGED <<avars, rvars, events, bvars, out>>
    /\ UNCHANGED <<cvars, evars, ivars>>

\* select!: broker_recv.recv() yields None (the registry's sender is dropped
\* and the queue is empty): Err(ChannelReceive).
WriterRecvNone(c) ==
    /\ wpc[c] = "select"
    /\ respq[c] = <<>>
    /\ c \notin clients
    /\ WriterExit(c, "ChannelReceive", <<>>)
    /\ UNCHANGED <<avars, rvars, events, bvars, out>>
    /\ UNCHANGED <<cvars, evars, ivars>>

\* A variant of the writer that also checks the shutdown signal between the
\* frames of one response.
WriterShutdown_any_frame(c) ==
    /\ wpc[c] \in {"select", "write"}
    /\ token[c]
    /\ WriterExit(c, "Ok", respq[c])
    /\ UNCHANGED <<avars, rvars, events, bvars, out>>
    /\ UNCHANGED <<cvars, evars, ivars>>

\* select!: the shutdown signal is ready; select! takes either ready branch.
WriterShutdown(c) ==
    /\ wpc[c] = "select"
    /\ token[c]
    /\ WriterExit(c, "Ok", respq[c])
    /\ UNCHANGED <<avars, rvars, events, bvars, out>>
    /\ UNCHANGED <<cvars, evars, ivars>>

\* Inside a streamed response: the next write_all succeeds.
WriterWrite(c) ==
    /\ wpc[c] = "write"
    /\ WriteResponse(c, wcur[c], respq[c])
    /\ UNCHANGED <<avars, rvars, events, bvars>>
    /\ UNCHANGED <<cvars, evars, ivars>>

\* Inside a streamed response: the next write_all fails: Err(Write).
WriterWriteErr(c) ==
    /\ wpc[c] = "write"
    /\ WriterExit(c, "Write", respq[c])
    /\ UNCHANGED <<avars, rvars, events, bvars, out>>
    /\ UNCHANGED <<cvars, evars, ivars>>

\* --------------------------------------------------------------------- spec
ReaderNext == \E c \in Peers : ReaderSend(c) \/ ReaderRead(c) \/ ReaderReadErr(c)

BrokerNext ==
    \/ BrokerNewClient \/ BrokerPrime \/ BrokerPrimeDone \/ BrokerLog \/ BrokerRSA
    \/ BrokerQuit \/ BrokerSendResume \/ BrokerHarvest \/ BrokerEventsClosed
    \/ BrokerDrain

WriterNext ==
    \E c \in Peers :
        \/ WriterRecv(c) \/ WriterRecvErr(c) \/ WriterRecvNone(c)
        \/ WriterShutdown(c) \/ WriterWrite(c) \/ WriterWriteErr(c)

AcceptNext ==
    \/ \E c \in Peers : AcceptConn(c)
    \/ AcceptErr \/ ListenerEnd \/ AcceptJoin

Next == AcceptNext \/ ReaderNext \/ BrokerNext \/ WriterNext

Spec == Init /\ [][Next]_vars

\* The steps of one writer task.
WriterTask(c) ==
    \/ WriterRecvErr(c) \/ WriterWriteErr(c) \/ WriterShutdown(c)
    \/ WriterRecvNone(c) \/ WriterRecv(c) \/ WriterWrite(c)

FairInit ==
    /\ ServerInit
    /\ budget = FairFrames
    /\ menu \in Menus
    /\ CodecIdle
    /\ EngineIdle
    /\ ClientIdle

\* The runtime runs every task that can take a step: the broker, each writer
\* task (its write_all calls complete or fail) and each reader task that is
\* suspended in a send.  Nothing obliges a client to send or to disconnect,
\* or the listener to yield a connection.
FairSpec ==
    /\ FairInit /\ [][Next]_vars
    /\ WF_vars(BrokerNext)
    /\ \A c \in Peers : WF_vars(WriterTask(c))
    /\ \A c \in Peers : WF_vars(ReaderSend(c))

\* ------------------------------------------------------- codec round trips
\* The u64 values the round trips are run on: zero, one, the byte and limb
\* boundaries, a value whose eight bytes are all different, and u64::MAX.
U64Samples ==
    { ZeroU64, <<1, 0, 0, 0>>, <<255, 0, 0, 0>>, <<256, 0, 0, 0>>,
      <<513, 1027, 1541, 2055>>, <<65535, 65535, 65535, 65535>> }

\* Every Frame over the sample values.
CodecFrames ==
    { [kind |-> "Log", g |-> g, h |-> h, p |-> p] : g \in U64Samples, h \in U64Samples, p \in U64Samples }
    \cup { [kind |-> "RSA", n |-> n, e |-> e] : n \in U64Samples, e \in U64Samples }
    \cup { [kind |-> "Prime", p |-> p] : p \in U64Samples }
    \cup { [kind |-> "Quit"] }

\* The same values in a fixed order.
U64SampleSeq ==
    << ZeroU64, <<1, 0, 0, 0>>, <<255, 0, 0, 0>>, <<256, 0, 0, 0>>,
       <<513, 1027, 1541, 2055>>, <<65535, 65535, 65535, 65535>> >>

\* The f32 bit patterns of prob: 0.0, 1.0 (what 1.0 - 0.25^20 rounds to), a
\* pattern whose four bytes are all different, and all ones.
U32Samples == { ZeroU32, <<0, 16256>>, <<513, 1027>>, <<65535, 65535>> }

\* The fields of each wire response as client_write_task constructs it:
\* SuccessfulLog and SuccessfulRSA carry a ratio.
WrittenFields(kind) ==
    IF kind \in {"SuccessfulLog", "SuccessfulRSA"}
    THEN Append(ResponseFields(kind), "ratio")
    ELSE ResponseFields(kind)

WireKinds ==
    {"ConnectionOk", "NotPrime", "Prime", "LogItem", "SuccessfulLog",
     "UnsuccessfulLog", "RSAItem", "SuccessfulRSA", "UnsuccessfulRSA"}

\* The response of one kind whose j-th field holds sample j + rot (so that
\* neighbouring fields differ), with prob drawn apart.
SampleResponse(kind, rot, prob) ==
    LET fields == WrittenFields(kind)
        names == {fields[j] : j \in 1..Len(fields)}
                  \cup {"kind"} \cup (IF kind = "Prime" THEN {"prob"} ELSE {})
    IN [f \in names |->
            IF f = "kind" THEN kind
            ELSE IF f = "prob" THEN prob
            ELSE LET j == CHOOSE j \in 1..Len(fields) : fields[j] = f
                 IN U64SampleSeq[((j + rot) % Len(U64SampleSeq)) + 1]]

CodecResponses ==
    { SampleResponse(kind, rot, prob) :
        kind \in WireKinds, rot \in 0..(Len(U64SampleSeq) - 1), prob \in U32Samples }

\* The round trips start from a request frame or from a wire response.
CodecStarts ==
    { <<"frame", f>> : f \in CodecFrames } \cup { <<"response", r>> : r \in CodecResponses }

CodecInit ==
    /\ ServerInit
    /\ budget = 0
    /\ menu = {}
    /\ \E st \in CodecStarts : cpc = st[1] /\ cframe = st[2]
    /\ ctag = <<>> /\ cback = Panic
    /\ EngineIdle
    /\ ClientIdle

\* let tag = frame.serialize();
FrameSerialize ==
    /\ cpc = "frame"
    /\ ctag' = Frame_serialize(cframe)
    /\ cpc' = "tag"
    /\ UNCHANGED <<cframe, cback>>
    /\ UNCHANGED <<svars, evars, ivars>>

\* let back = Frame::deserialize(&tag);
FrameDeserialize ==
    /\ cpc = "tag"
    /\ cback' = Frame_deserialize(ctag)
    /\ cpc' = "back"
    /\ UNCHANGED <<cframe, ctag>>
    /\ UNCHANGED <<svars, evars, ivars>>

\* let tag = response.serialize();
ResponseSerialize ==
    /\ cpc = "response"
    /\ LET t == Response_serialize(cframe) IN
        IF t.panic THEN cpc' = "rpanic" /\ UNCHANGED ctag
        ELSE cpc' = "rtag" /\ ctag' = t.v
    /\ UNCHANGED <<cframe, cback>>
    /\ UNCHANGED <<svars, evars, ivars>>

\* let back = Response::deserialize(&tag);
ResponseDeserialize ==
    /\ cpc = "rtag"
    /\ cback' = Response_deserialize(ctag)
    /\ cpc' = "rback"
    /\ UNCHANGED <<cframe, ctag>>
    /\ UNCHANGED <<svars, evars, ivars>>

CodecNext == FrameSerialize \/ FrameDeserialize \/ ResponseSerialize \/ ResponseDeserialize

CodecSpec == CodecInit /\ [][CodecNext]_vars

\* ============================================================== the engine
\* The walks driven directly, as a caller of the library drives them: the
\* constructor, then next(), solve() and factor() in any order.
MaxP == 13
MaxN == 40
MaxWideSteps == 2

\* PollardsLog::new(p, g, h) for every p up to MaxP and g, h up to p
LogArgs ==
    { [kind |-> "Log", p |-> p, g |-> g, h |-> h] :
        p \in 0..MaxP, g \in 0..MaxP, h \in 0..MaxP } \
    { a \in [kind : {"Log"}, p : 0..MaxP, g : 0..MaxP, h : 0..MaxP] : a.g > a.p \/ a.h > a.p }

\* PollardsLog::new for the prime p = 2^61 - 1 with g = p - 1 and h = 16, and
\* for (11, 2, 8) held as u64 values
LogArgsU64 ==
    { [kind |-> "LogU64", p |-> <<65535, 65535, 65535, 8191>>,
       g |-> <<65534, 65535, 65535, 8191>>, h |-> U64Of(16)],
      [kind |-> "LogU64", p |-> U64Of(11), g |-> U64Of(2), h |-> U64Of(8)] }

\* PollardsRSAFact::new(n) for every n up to MaxN, for 2^32 + 1 and 2^64 - 1
RSAArgs ==
    { [kind |-> "RSA", n |-> U64Of(n)] : n \in 0..MaxN }
    \cup { [kind |-> "RSA", n |-> <<1, 0, 1, 0>>],
           [kind |-> "RSA", n |-> <<65535, 65535, 65535, 65535>>] }

\* gcd_mul_inverse(m, v, gcd(v, m), s, t) for every modulus m up to MaxN and
\* every v in [1, m), with (s, t) = gcd_weights(v, m) as solve() calls it
\* ("vm") or gcd_weights(m, v) as the test calls it ("mv")
InverseArgs ==
    { x \in [kind : {"Inverse"}, m : 2..MaxN, v : 1..MaxN, order : {"vm", "mv"}] :
        x.v < x.m }

\* The same call for the prime modulus m = 2^32 + 15 with v = 3 and v = m - 1,
\* held as u64 values
InverseArgsU64 ==
    { [kind |-> "InverseU64", m |-> <<15, 0, 1, 0>>, v |-> v, order |-> o] :
        v \in { U64Of(3), <<14, 0, 1, 0>> }, o \in {"vm", "mv"} }

\* gcd_weights(a, b) for every a and b from 1 to MaxN, and for pairs of
\* u64 values above 2^32
WeightsArgs == [kind : {"Weights"}, a : 1..MaxN, b : 1..MaxN]
WeightsArgsU64 ==
    { [kind |-> "WeightsU64", a |-> <<65535, 65535, 65535, 8191>>, b |-> <<15, 0, 1, 0>>],
      [kind |-> "WeightsU64", a |-> <<15, 0, 1, 0>>, b |-> <<65535, 65535, 65535, 8191>>],
      [kind |-> "WeightsU64", a |-> <<65535, 65535, 65535, 65535>>,
                              b |-> <<65534, 65535, 65535, 65535>>] }

\* miller_rabin(n, a) for every n from 3 to MaxN and every a in [2, n), and
\* for the prime n = 2^32 + 15 with a = 2 and a = 3
MillerRabinArgs ==
    { x \in [kind : {"MillerRabin"}, n : 3..MaxN, a : 2..MaxN] : x.a < x.n }
MillerRabinArgsU64 ==
    { [kind |-> "MillerRabinU64", n |-> <<15, 0, 1, 0>>, a |-> U64Of(a)] : a \in {2, 3} }

EngineInit ==
    /\ ServerInit
    /\ budget = 0
    /\ menu = {}
    /\ CodecIdle
    /\ epc = "new"
    /\ ein \in LogArgs \cup LogArgsU64 \cup RSAArgs \cup InverseArgs \cup InverseArgsU64
                \cup WeightsArgs \cup WeightsArgsU64
                \cup MillerRabinArgs \cup MillerRabinArgsU64
    /\ ewalk = None /\ eop = "none" /\ eret = None
    /\ ClientIdle

\* An engine call unwinds: the walk is dropped.
EnginePanic(op) ==
    /\ epc' = "panicked" /\ eop' = op
    /\ UNCHANGED <<ein, ewalk, eret>>

\* let mut pollards = PollardsLog::new(p, g, h);
LogNew ==
    /\ epc = "new"
    /\ ein.kind \in {"Log", "LogU64"}
    /\ ewalk' = Some(IF ein.kind = "Log" THEN PollardsLog_new(ein.p, ein.g, ein.h)
                     ELSE PollardsLog_new_u64(ein.p, ein.g, ein.h))
    /\ epc' = "walk" /\ eop' = "new"
    /\ UNCHANGED <<ein, eret>>
    /\ UNCHANGED <<svars, cvars, ivars>>

\* pollards.next()
LogNext ==
    /\ epc = "walk"
    /\ ein.kind = "Log"
    /\ LET nx == PollardsLog_next(ewalk.v) IN
        IF nx.panic THEN EnginePanic("next")
        ELSE /\ ewalk' = Some(nx.self)
             /\ eret' = nx.item
             /\ eop' = "next"
             /\ UNCHANGED <<epc, ein>>
    /\ UNCHANGED <<svars, cvars, ivars>>

\* pollards.next() on u64 values, in a build with or without overflow checks
LogNextU64 ==
    /\ epc = "walk"
    /\ ein.kind = "LogU64"
    /\ ewalk.v.i < MaxWideSteps
    /\ \E wrap \in BOOLEAN :
        LET nx == PollardsLog_next_u64(ewalk.v, wrap) IN
        IF nx.panic THEN EnginePanic("next")
        ELSE /\ ewalk' = Some(nx.self)
             /\ eret' = nx.item
             /\ eop' = "next"
             /\ UNCHANGED <<epc, ein>>
    /\ UNCHANGED <<svars, cvars, ivars>>

\* pollards.solve()
LogSolve ==
    /\ epc = "walk"
    /\ ein.kind = "Log"
    /\ LET log == PollardsLog_solve(ewalk.v) IN
        IF log.panic THEN EnginePanic("solve")
        ELSE /\ eret' = log.v
             /\ eop' = "solve"
             /\ UNCHANGED <<epc, ein, ewalk>>
    /\ UNCHANGED <<svars, cvars, ivars>>

\* let mut pollards = PollardsRSAFact::new(n);
FactorNew ==
    /\ epc = "new"
    /\ ein.kind = "RSA"
    /\ LET walk == PollardsRSAFact_new(ein.n) IN
        IF walk.panic THEN EnginePanic("new")
        ELSE /\ ewalk' = Some(walk.v)
             /\ epc' = "walk" /\ eop' = "new"
             /\ UNCHANGED <<ein, eret>>
    /\ UNCHANGED <<svars, cvars, ivars>>

\* pollards.next()
FactorNext ==
    /\ epc = "walk"
    /\ ein.kind = "RSA"
    /\ LET nx == PollardsRSAFact_next(ewalk.v) IN
        IF nx.panic THEN EnginePanic("next")
        ELSE /\ ewalk' = Some(nx.self)
             /\ eret' = nx.item
             /\ eop' = "next"
             /\ UNCHANGED <<epc, ein>>
    /\ UNCHANGED <<svars, cvars, ivars>>

\* pollards.factor()
FactorFactor ==
    /\ epc = "walk"
    /\ ein.kind = "RSA"
    /\ LET f == PollardsRSAFact_factor(ewalk.v) IN
        /\ ewalk' = Some(f.self)
        /\ eret' = f.v
        /\ eop' = "factor"
        /\ UNCHANGED <<epc, ein>>
    /\ UNCHANGED <<svars, cvars, ivars>>

\* A call of a function of utils returns v.
EngineReturn(op, v) ==
    /\ epc' = "returned" /\ eop' = op
    /\ eret' = Some(v)
    /\ UNCHANGED <<ein, ewalk>>

\* The coefficients handed to gcd_mul_inverse
InverseWeights(v, m, order) ==
    IF order = "vm" THEN gcd_weights(v, m) ELSE gcd_weights(m, v)
InverseWeightsU64(v, m, order, wrap) ==
    IF order = "vm" THEN gcd_weights_u64(v, m, wrap) ELSE gcd_weights_u64(m, v, wrap)

\* let v_inv = gcd_mul_inverse(m, v, d, s, t)
InverseOf(m, v, d, st) ==
    IF d.panic \/ st.panic THEN Panic
    ELSE gcd_mul_inverse(m, v, d.v, st.v[1], st.v[2])
InverseOfU64(m, v, d, st, wrap) ==
    IF d.panic \/ st.panic THEN Panic
    ELSE gcd_mul_inverse_u64(m, v, d.v, st.v[1], st.v[2], wrap)

InverseDone(w) ==
    IF w.panic THEN EnginePanic("gcd_mul_inverse")
    ELSE EngineReturn("gcd_mul_inverse", w.v)

InverseCall ==
    /\ epc = "new"
    /\ ein.kind = "Inverse"
    /\ InverseDone(InverseOf(ein.m, ein.v, gcd(ein.v, ein.m),
                             InverseWeights(ein.v, ein.m, ein.order)))
    /\ UNCHANGED <<svars, cvars, ivars>>

\* the same call on u64 values, in a build with or without overflow checks
InverseCallU64 ==
    /\ epc = "new"
    /\ ein.kind = "InverseU64"
    /\ \E wrap \in BOOLEAN :
        InverseDone(InverseOfU64(ein.m, ein.v, gcd_u64(ein.v, ein.m),
                                 InverseWeightsU64(ein.v, ein.m, ein.order, wrap), wrap))
    /\ UNCHANGED <<svars, cvars, ivars>>

WeightsDone(st) ==
    IF st.panic THEN EnginePanic("gcd_weights") ELSE EngineReturn("gcd_weights", st.v)

\* let (s, t) = gcd_weights(a, b)
WeightsCall ==
    /\ epc = "new"
    /\ ein.kind = "Weights"
    /\ WeightsDone(gcd_weights(ein.a, ein.b))
    /\ UNCHANGED <<svars, cvars, ivars>>

WeightsCallU64 ==
    /\ epc = "new"
    /\ ein.kind = "WeightsU64"
    /\ \E wrap \in BOOLEAN : WeightsDone(gcd_weights_u64(ein.a, ein.b, wrap))
    /\ UNCHANGED <<svars, cvars, ivars>>

MillerRabinDone(res) ==
    IF res.panic THEN EnginePanic("miller_rabin") ELSE EngineReturn("miller_rabin", res.v)

\* miller_rabin(n, a)
MillerRabinCall ==
    /\ epc = "new"
    /\ ein.kind = "MillerRabin"
    /\ MillerRabinDone(Ok(miller_rabin(ein.n, ein.a)))
    /\ UNCHANGED <<svars, cvars, ivars>>

\* miller_rabin(n, a) on u64 values, in a build with or without overflow
\* checks, up to its call of fast_power
MillerRabinStartDone(res) ==
    IF res.panic THEN EnginePanic("miller_rabin")
    ELSE IF res.v.some THEN EngineReturn("miller_rabin", res.v.v)
    ELSE /\ ewalk' = Some(res.st)
         /\ epc' = "walk" /\ eop' = "miller_rabin"
         /\ UNCHANGED <<ein, eret>>

MillerRabinStartU64 ==
    /\ epc = "new"
    /\ ein.kind = "MillerRabinU64"
    /\ \E wrap \in BOOLEAN :
        MillerRabinStartDone(
            miller_rabin_start_u64(ein.n, ein.a, gcd_u64(ein.a, ein.n), wrap))
    /\ UNCHANGED <<svars, cvars, ivars>>

\* A loop turn has given the locals st.
MillerRabinTurnDone(st) ==
    IF st.panic THEN EnginePanic("miller_rabin")
    ELSE /\ ewalk' = Some(st.v)
         /\ UNCHANGED <<epc, ein, eop, eret>>

\* fast_power: while e > 0 { .. }; then if a % n == 1 { return false }
MillerRabinPowerU64 ==
    /\ epc = "walk"
    /\ ein.kind = "MillerRabinU64"
    /\ ewalk.v.phase = "power"
    /\ IF ewalk.v.e # ZeroU64 THEN MillerRabinTurnDone(PowTurn_u64(ewalk.v))
       ELSE IF U64_rem(Ok(ewalk.v.r), Ok(ewalk.v.n)) = Ok(U64Of(1))
       THEN EngineReturn("miller_rabin", FALSE)
       ELSE /\ ewalk' = Some([ewalk.v EXCEPT !.phase = "square"])
            /\ UNCHANGED <<epc, ein, eop, eret>>
    /\ UNCHANGED <<svars, cvars, ivars>>

\* for i in 0..k { if a % n == n - 1 { return false } a *= a; a %= n } true
MillerRabinSquareU64 ==
    /\ epc = "walk"
    /\ ein.kind = "MillerRabinU64"
    /\ ewalk.v.phase = "square"
    /\ IF ewalk.v.i = ewalk.v.k THEN EngineReturn("miller_rabin", TRUE)
       ELSE IF U64_rem(Ok(ewalk.v.r), Ok(ewalk.v.n))
                = U64_sub(Ok(ewalk.v.n), Ok(U64Of(1)), ewalk.v.wrap)
       THEN EngineReturn("miller_rabin", FALSE)
       ELSE MillerRabinTurnDone(SquareTurn_u64(ewalk.v))
    /\ UNCHANGED <<svars, cvars, ivars>>

EngineNext ==
    \/ LogNew \/ LogNext \/ LogNextU64 \/ LogSolve \/ FactorNew \/ FactorNext \/ FactorFactor
    \/ InverseCall \/ InverseCallU64 \/ WeightsCall \/ WeightsCallU64
    \/ MillerRabinCall \/ MillerRabinStartU64 \/ MillerRabinPowerU64 \/ MillerRabinSquareU64

EngineSpec == EngineInit /\ [][EngineNext]_vars

\* ============================================================== the client
\* Client::connect: the interface starts in Init, and the loop alternates
\* receive_response and parse_request until parse_request returns Quit or
\* either returns an error.
MaxRequests == 2
MaxTurns == 2

\* The requests the user of this model enters.
ClientPrimes == { [kind |-> "Prime", p |-> U64Of(3)], [kind |-> "Prime", p |-> U64Of(4)] }
ClientLogs == { [kind |-> "Log", g |-> U64Of(2), h |-> U64Of(4), p |-> U64Of(7)] }
ClientRSAs == { [kind |-> "RSA", n |-> U64Of(15), e |-> U64Of(3)],
                [kind |-> "RSA", n |-> U64Of(15), e |-> U64Of(5)] }

\* What a peer that answers as the server does sends next to an interface in
\* state st; any other peer sends any variant.
ProtocolKinds(st) ==
    CASE st = "Init" -> {"ConnectionOk"}
      [] st = "Prime" -> {"Prime", "NotPrime"}
      [] st = "Log" -> {"LogItem", "SuccessfulLog", "UnsuccessfulLog"}
      [] st = "RSA" -> {"RSAItem", "SuccessfulRSA", "UnsuccessfulRSA"}
      [] OTHER -> {}

FeedKinds(st) == IF ifeed = "protocol" THEN ProtocolKinds(st) ELSE WireKinds

ClientInit ==
    /\ ServerInit
    /\ budget = 0
    /\ menu = {}
    /\ CodecIdle
    /\ EngineIdle
    /\ ipc = "receive" /\ iface = "Init" /\ ires = "none"
    /\ isent = <<>> /\ iloop = 0
    /\ ifeed \in {"protocol", "any"}

\* receive_response or parse_request returns Err(..) or unwinds, and connect
\* returns with it.
ClientExit(res) ==
    /\ ipc' = "done" /\ ires' = res /\ iloop' = 0
    /\ UNCHANGED <<iface, isent, ifeed>>

\* receive_response returns Ok(next): connect goes on to parse_request.
ReceiveReturns(next) ==
    /\ ipc' = "parse" /\ iface' = next /\ iloop' = 0
    /\ UNCHANGED <<ires, isent, ifeed>>

\* The loop of the Log and RSA branches read an item; it reads on.
ReceiveItem ==
    /\ iloop' = iloop + 1
    /\ UNCHANGED <<ipc, iface, ires, isent, ifeed>>

\* A receive_response whose Prime branch returns the state it was called in
Interface_receive_response_keeps_prime(k) ==
    CASE iface = "Init" ->
            IF k = "ConnectionOk" THEN ReceiveReturns("Home") ELSE ClientExit("panic")
      [] iface = "Home" -> ReceiveReturns("Home")
      [] iface = "Prime" ->
            IF k \in {"Prime", "NotPrime"} THEN ReceiveReturns("Prime")
            ELSE ClientExit("IllegalResponse")
      [] iface = "Log" ->
            IF k = "LogItem" THEN ReceiveItem
            ELSE IF k \in {"SuccessfulLog", "UnsuccessfulLog"} THEN ReceiveReturns("ReturnHome")
            ELSE ClientExit("IllegalResponse")
      [] iface = "RSA" ->
            IF k = "RSAItem" THEN ReceiveItem
            ELSE IF k \in {"SuccessfulRSA", "UnsuccessfulRSA"} THEN ReceiveReturns("ReturnHome")
            ELSE ClientExit("IllegalResponse")
      [] OTHER -> ClientExit("InterfaceState")

\* Interface::receive_response, Response::from_reader having read the
\* variant k where the branch reads one.
Interface_receive_response(k) ==
    CASE iface = "Init" ->
            IF k = "ConnectionOk" THEN ReceiveReturns("Home") ELSE ClientExit("panic")
      [] iface = "Home" -> ReceiveReturns("Home")
      [] iface = "Prime" ->
            IF k \in {"Prime", "NotPrime"} THEN ReceiveReturns("ReturnHome")
            ELSE ClientExit("IllegalResponse")
      [] iface = "Log" ->
            IF k = "LogItem" THEN ReceiveItem
            ELSE IF k \in {"SuccessfulLog", "UnsuccessfulLog"} THEN ReceiveReturns("ReturnHome")
            ELSE ClientExit("IllegalResponse")
      [] iface = "RSA" ->
            IF k = "RSAItem" THEN ReceiveItem
            ELSE IF k \in {"SuccessfulRSA", "UnsuccessfulRSA"} THEN ReceiveReturns("ReturnHome")
            ELSE ClientExit("IllegalResponse")
      [] OTHER -> ClientExit("InterfaceState")

\* The branches of receive_response that read from the server.
ReadsResponse(st) == st \in {"Init", "Prime", "Log", "RSA"}

\* interface.receive_response(&mut from_server).await, the read succeeding.
ClientReceive ==
    /\ ipc = "receive"
    /\ IF ReadsResponse(iface)
       THEN \E k \in FeedKinds(iface) :
                /\ (IF k \in {"LogItem", "RSAItem"} THEN iloop < MaxTurns ELSE TRUE)
                /\ Interface_receive_response(k)
       ELSE Interface_receive_response("ConnectionOk")
    /\ UNCHANGED <<svars, cvars, evars>>

\* Response::from_reader fails (the peer closed the connection):
\* Err(ClientError::Response).
ClientReceiveErr ==
    /\ ipc = "receive"
    /\ ReadsResponse(iface)
    /\ ifeed = "any"
    /\ ClientExit("Response")
    /\ UNCHANGED <<svars, cvars, evars>>

\* Response::from_reader (called by the interface, read here as the
\* counterpart of Frame::from_reader: read_exact, then deserialize) reads an
\* unknown type byte: deserialize panics.
ClientReceivePanic ==
    /\ ipc = "receive"
    /\ ReadsResponse(iface)
    /\ ifeed = "any"
    /\ ClientExit("panic")
    /\ UNCHANGED <<svars, cvars, evars>>

\* parse_request in Home, the user entering "q": break Interface::Quit, and
\* connect leaves its loop on Ok(Interface::Quit) and returns Ok(()).
ClientQuit ==
    /\ ipc = "parse"
    /\ iface = "Home"
    /\ ipc' = "done" /\ iface' = "Quit" /\ ires' = "Ok" /\ iloop' = 0
    /\ UNCHANGED <<isent, ifeed>>
    /\ UNCHANGED <<svars, cvars, evars>>

\* to_server.write_all(frame.as_bytes()) succeeds and the interface takes the
\* state of the request.
ClientSend(frame) ==
    /\ ipc = "parse"
    /\ iface = "Home"
    /\ Len(isent) < MaxRequests
    /\ isent' = Append(isent, Frame_serialize(frame))
    /\ ipc' = "receive" /\ iface' = frame.kind /\ iloop' = 0
    /\ UNCHANGED <<ires, ifeed>>
    /\ UNCHANGED <<svars, cvars, evars>>

\* parse_request in Home, the user entering a number.
ClientSendPrime == \E f \in ClientPrimes : ClientSend(f)

\* parse_request in Home, the user entering "l" and then base, value, prime.
ClientSendLog == \E f \in ClientLogs : ClientSend(f)

\* parse_request in Home, the user entering "r" and then modulus, exponent.
ClientSendRSA == \E f \in ClientRSAs : ClientSend(f)

\* to_server.write_all fails: Err(ClientError::SendRequest).
ClientSendErr ==
    /\ ipc = "parse"
    /\ iface = "Home"
    /\ ifeed = "any"
    /\ ClientExit("SendRequest")
    /\ UNCHANGED <<svars, cvars, evars>>

\* parse_request in Home, the user entering anything else:
\* incorrect_input_prompt, and the loop reads again.
ClientBadInput ==
    /\ ipc = "parse"
    /\ iface = "Home"
    /\ iloop < MaxTurns
    /\ iloop' = iloop + 1
    /\ UNCHANGED <<ipc, iface, ires, isent, ifeed>>
    /\ UNCHANGED <<svars, cvars, evars>>

\* parse_request in a state other than Home: ReturnHome waits for a key and
\* returns Home, every other state is Err(ClientError::InterfaceState).
ClientReturnHome ==
    /\ ipc = "parse"
    /\ iface # "Home"
    /\ IF iface = "ReturnHome"
       THEN /\ ipc' = "receive" /\ iface' = "Home" /\ iloop' = 0
            /\ UNCHANGED <<ires, isent, ifeed>>
       ELSE ClientExit("InterfaceState")
    /\ UNCHANGED <<svars, cvars, evars>>

ClientNext ==
    \/ ClientReceive \/ ClientReceiveErr \/ ClientReceivePanic
    \/ ClientQuit \/ ClientSendPrime \/ ClientSendLog \/ ClientSendRSA
    \/ ClientSendErr \/ ClientBadInput \/ ClientReturnHome

ClientSpec == ClientInit /\ [][ClientNext]_vars

\* ================================================================== claims
\* The frames that end a response (Response::ConnectionOk, Prime, NotPrime
\* and the terminal records of the two walks).
ResponseEnd ==
    {"ConnectionOk", "Prime", "NotPrime", "SuccessfulLog", "UnsuccessfulLog",
     "SuccessfulRSA", "UnsuccessfulRSA"}

\* The writer task of c is spawned and has not returned or unwound.
WriterRunning(c) == wpc[c] \in {"select", "write"}

\* C1: for every connection, once its reader task has exited, the registry
\* eventually holds no entry for the connection's peer id, and the entry
\* stays absent from then on.
C1_RegistryCleared ==
    \A c \in Peers : ReaderExited(c) ~> [](c \notin clients)

\* C2: on one connection, the LogItem frames of a Log request carry the
\* indices 1, 2, 3, .. in the order they are written, one step at a time, and
\* the request's SuccessfulLog or UnsuccessfulLog frame comes after all of
\* them: no frame of the request follows it.
C2_LogItemOrder ==
    \A c \in Peers : \A k \in 1..Len(out[c]) :
        LET f == out[c][k]
            samePrev == k > 1 /\ out[c][k - 1].req = f.req
        IN /\ f.kind = "LogItem" =>
                IF samePrev
                THEN /\ out[c][k - 1].kind = "LogItem"
                     /\ f.item.i = out[c][k - 1].item.i + 1
                ELSE f.item.i = 1
           /\ f.kind \in {"SuccessfulLog", "UnsuccessfulLog"} =>
                /\ samePrev
                /\ out[c][k - 1].kind = "LogItem"
                /\ \A j \in (k + 1)..Len(out[c]) : out[c][j].req # f.req

\* A Log response written in full: LogItem 1, LogItem 2, then SuccessfulLog.
C2_Witness ==
    \E c \in Peers : \E k \in 3..Len(out[c]) :
        /\ out[c][k].kind = "SuccessfulLog"
        /\ out[c][k - 1].kind = "LogItem" /\ out[c][k - 1].item.i = 2
        /\ out[c][k - 2].kind = "LogItem" /\ out[c][k - 2].item.i = 1

\* C3: on one connection the responses are written in the order the request
\* frames were read and do not interleave: two neighbouring frames either
\* belong to one request, the first being a streamed item, or the first ends
\* the response of an earlier request than the second's.
C3_ResponseOrder ==
    \A c \in Peers : \A k \in 2..Len(out[c]) :
        LET a == out[c][k - 1]
            b == out[c][k]
        IN IF a.req = b.req
           THEN a.kind \in {"LogItem", "RSAItem"}
           ELSE a.req < b.req /\ a.kind \in ResponseEnd

\* The streamed response of one request is followed by the response of a
\* later request of the same connection.
C3_Witness ==
    \E c \in Peers : \E k \in 2..Len(out[c]) :
        /\ out[c][k - 1].kind \in {"SuccessfulLog", "SuccessfulRSA"}
        /\ out[c][k].req > out[c][k - 1].req

\* C4: when the reader task of a connection has exited, by whatever path,
\* the connection's token is cancelled, and the paired writer task
\* eventually is not running and stays so.
C4_ReaderExitStopsWriter ==
    \A c \in Peers : ReaderExited(c) ~> [](token[c] /\ ~WriterRunning(c))

\* The reader unwound on an unknown tag byte and the writer left through the
\* shutdown branch.
C4_Witness ==
    \E c \in Peers : rpc[c] = "panicked" /\ wpc[c] = "exited" /\ wres[c] = "Ok"

\* C5: a writer task that leaves through the cancellation branch has written
\* every response it began in full: what it wrote is empty or ends with the
\* last frame of a response.
C5_NoTruncation ==
    \A c \in Peers :
        wres[c] = "Ok" =>
            IF out[c] = <<>> THEN TRUE ELSE out[c][Len(out[c])].kind \in ResponseEnd

\* The token is cancelled while the writer is between two frames of a
\* streamed response.
C5_Witness ==
    \E c \in Peers :
        /\ token[c] /\ wpc[c] = "write"
        /\ out[c] # <<>> /\ out[c][Len(out[c])].kind \in {"LogItem", "RSAItem"}

\* C6: once the listener stream has ended and every reader task has exited,
\* a broker that has not failed processes the pending harvest events,
\* terminates with Ok, and the accept loop's wait on it returns: when no task
\* can take a step any more, that is the state reached.
C6_CleanShutdown ==
    (EventSendersDropped /\ bres \in {"none", "Ok"} /\ ~ENABLED Next)
        => (bpc = "done" /\ bres = "Ok" /\ apc = "done")

\* C7: the exit of a connection's reader or writer task never makes the
\* broker terminate with the error of a missing registry entry or of a
\* failed send, and never leaves it suspended in a send to a writer task
\* that has returned.
C7_Isolation ==
    /\ bres \notin {"IllegalState", "ChannelSend"}
    /\ ~(/\ bpc = "send"
         /\ rx[bcur.c] = "harvest"
         /\ Len(respq[bcur.c]) >= BufSize)

\* C8: a Prime, Log or RSA event whose peer id is not in the registry
\* terminates the broker with IllegalState; a Quit event is only logged and
\* never terminates the broker.
C8_UnknownPeer ==
    /\ (blast.kind \in {"Prime", "Log", "RSA"} /\ ~blast.known)
            => (bpc = "done" /\ bres = "IllegalState")
    /\ blast.kind = "Quit" => bpc # "done"

\* C8 as stated: a Prime, Log, RSA or Quit event whose peer id is not in the
\* registry terminates the broker with IllegalState.
C8_Original ==
    (blast.kind \in {"Prime", "Log", "RSA", "Quit"} /\ ~blast.known)
        => (bpc = "done" /\ bres = "IllegalState")

\* The broker took a Log event of a peer it had harvested.
C8_Witness ==
    blast.kind = "Log" /\ ~blast.known /\ bres = "IllegalState"

\* C9: the event channel and every response channel hold at most buf_size
\* messages, a task suspended in a send keeps its message out of the channel;
\* the harvest channel has no capacity and holds at most one message per
\* writer task, each from a writer that has returned.
C9_Bounded ==
    /\ Len(events) <= BufSize
    /\ \A c \in Peers : Len(respq[c]) <= BufSize
    /\ \A c \in Peers :
        rpc[c] = "send" => \A k \in 1..Len(events) : events[k] # rev[c]
    /\ Len(harvest) <= NumClients
    /\ \A j, k \in 1..Len(harvest) : harvest[j] = harvest[k] => j = k
    /\ \A k \in 1..Len(harvest) : wpc[harvest[k]] = "exited"

\* C9 as stated: every channel, the harvest channel included, holds at most
\* buf_size messages.
C9_Original ==
    /\ Len(events) <= BufSize
    /\ \A c \in Peers : Len(respq[c]) <= BufSize
    /\ Len(harvest) <= BufSize

\* Both bounded channels are full, with a reader suspended in its send.
C9_Witness ==
    /\ Len(events) = BufSize
    /\ \E c \in Peers : Len(respq[c]) = BufSize
    /\ \E c \in Peers : rpc[c] = "send"

\* C10: for every request frame x, serialize(x) is 25 bytes long and
\* deserialize(serialize(x)) is x.
C10_FrameRoundTrip ==
    /\ cpc \in {"tag", "back"} =>
        /\ DOMAIN ctag = 1..25
        /\ \A k \in DOMAIN ctag : ctag[k] \in 0..255
    /\ cpc = "back" => ~cback.panic /\ cback.v = cframe

\* A Log frame whose three fields differ in every byte position came back
\* from the round trip.
C10_Witness ==
    /\ cpc = "back"
    /\ cframe.kind = "Log"
    /\ cframe.g = <<513, 1027, 1541, 2055>>
    /\ cframe.h = <<65535, 65535, 65535, 65535>>
    /\ cframe.p = <<256, 0, 0, 0>>

\* C11: for every wire response x, serialize(x) is 57 bytes long and
\* deserialize(serialize(x)) is x, every field preserved.
C11_ResponseRoundTrip ==
    /\ cpc \in {"rtag", "rback"} =>
        /\ DOMAIN ctag = 1..57
        /\ \A k \in DOMAIN ctag : ctag[k] \in 0..255
    /\ cpc = "rback" => ~cback.panic /\ cback.v = cframe

\* C12: the serialization of a request frame has the tag at byte 0 (1 Log,
\* 2 RSA, 3 Prime, 4 Quit), each 64-bit field little-endian at its offset
\* (the j-th field at bytes 1 + 8(j-1) .. 8j), and zero in every other byte.
C12_FrameLayout ==
    cpc \in {"tag", "back"} =>
        LET fields == CASE cframe.kind = "Log" -> <<"g", "h", "p">>
                        [] cframe.kind = "RSA" -> <<"n", "e">>
                        [] cframe.kind = "Prime" -> <<"p">>
                        [] cframe.kind = "Quit" -> <<>>
            number == CASE cframe.kind = "Log" -> 1
                        [] cframe.kind = "RSA" -> 2
                        [] cframe.kind = "Prime" -> 3
                        [] cframe.kind = "Quit" -> 4
            \* the 16-bit limb l (from 0) of the value in bytes off .. off + 8
            Limb(off, l) == ctag[off + 2 * l + 1] + 256 * ctag[off + 2 * l + 2]
        IN /\ ctag[1] = number
           /\ \A j \in 1..Len(fields) : \A l \in 0..3 :
                Limb(1 + 8 * (j - 1), l) = cframe[fields[j]][l + 1]
           /\ \A k \in (2 + 8 * Len(fields))..25 : ctag[k] = 0

\* An RSA frame whose n is 0x0807060504030201 is serialized: bytes 1..9 hold
\* 1, 2, .., 8 and the last eight bytes are unused.
C12_Witness ==
    /\ cpc = "tag"
    /\ cframe.kind = "RSA"
    /\ cframe.n = <<513, 1027, 1541, 2055>>
    /\ cframe.e = <<255, 0, 0, 0>>
    /\ \A b \in 1..8 : ctag[b + 1] = b
    /\ ctag[10] = 255

\* C13: a reader task that read a request with an unknown tag byte has ended
\* with an error value (it returned Err, it did not unwind), its token is
\* cancelled, the frame produced no event, and the broker has not failed.
C13_UnknownTag ==
    \A c \in Peers :
        ReadUnknownTag(c) =>
            /\ ReaderResult(c) = "Err"
            /\ token[c]
            /\ rev[c] = NoEvent
            /\ bres = "none"

\* ------------------------------------------------------------ walk claims
IsPrime(p) == p > 1 /\ \A k \in 2..(p - 1) : p % k # 0

RECURSIVE ModExp(_, _, _)
\* g^e mod p by e multiplications
ModExp(g, e, p) == IF e = 0 THEN 1 % p ELSE (g * ModExp(g, e - 1, p)) % p

\* g^a * h^b mod p for the walk w
LogCombination(w, a, b) == (ModExp(w.g, a, w.p) * ModExp(w.h, b, w.p)) % w.p

RECURSIVE MixIter(_, _, _)
\* n applications of the three-subset map of the walk w to the triple tr
MixIter(w, n, tr) ==
    IF n = 0 THEN tr
    ELSE MixIter(w, n - 1, PollardsLog_mix(w, tr[1], tr[2], tr[3]).v)

\* a * b mod m on u64 values, without overflow
MulModU64(a, b, m) ==
    IF a = ZeroU64 \/ b = ZeroU64 THEN ZeroU64
    ELSE LET prod == BytesMul(U64Bytes(a), U64Bytes(b))
         IN IF BytesIsZero(prod) THEN ZeroU64
            ELSE BytesU64(BytesRem(prod, U64Bytes(m)))

\* bit j (from 0) of the u64 e
U64Bit(e, j) == (U64Bytes(e)[(j \div 8) + 1] \div (2 ^ (j % 8))) % 2

RECURSIVE PowModU64(_, _, _, _)
\* g^(e >> i) mod m on u64 values, by squaring: g^(2 k + bit) = (g^k)^2 g^bit
PowModU64(g, e, m, i) ==
    IF \A j \in i..63 : U64Bit(e, j) = 0 THEN U64Of(1)
    ELSE LET half == PowModU64(g, e, m, i + 1)
         IN IF half = ZeroU64 THEN ZeroU64
            ELSE IF U64Bit(e, i) = 1 THEN MulModU64(MulModU64(half, half, m), g, m)
            ELSE MulModU64(half, half, m)

\* g^a * h^b mod p for the walk w on u64 values
LogCombinationU64(w, a, b) ==
    MulModU64(PowModU64(w.g, a, w.p, 0), PowModU64(w.h, b, w.p, 0), w.p)

\* The walk was built for an odd prime p and g, h in [1, p).
LogDomain ==
    /\ ein.kind = "Log"
    /\ IsPrime(ein.p) /\ ein.p % 2 = 1
    /\ ein.g \in 1..(ein.p - 1) /\ ein.h \in 1..(ein.p - 1)

\* For the walks whose values are held as naturals: x = g^a h^b and
\* y = g^c h^d modulo p, the tortoise is i applications of the map to (1,0,0)
\* and the hare 2 i applications.
SmallWalkInvariant ==
    (LogDomain /\ ewalk.some) =>
        LET w == ewalk.v IN
        /\ w.xi = LogCombination(w, w.ai, w.bi)
        /\ w.yi = LogCombination(w, w.gi, w.di)
        /\ <<w.xi, w.ai, w.bi>> = MixIter(w, w.i, <<1, 0, 0>>)
        /\ <<w.yi, w.gi, w.di>> = MixIter(w, 2 * w.i, <<1, 0, 0>>)

\* C14: for an odd prime p and g, h in [1, p), initially and after every step
\* of the walk, x = g^a h^b mod p for the tortoise (x, a, b) and
\* y = g^c h^d mod p for the hare (y, c, d); the tortoise has advanced one
\* application of the map per step and the hare two. Both u64 walks of
\* LogArgsU64 are over odd primes with g, h in [1, p).
C14_WalkInvariant ==
    /\ SmallWalkInvariant
    /\ (ein.kind = "LogU64" /\ ewalk.some) =>
        LET w == ewalk.v IN
        /\ w.xi = LogCombinationU64(w, w.ai, w.bi)
        /\ w.yi = LogCombinationU64(w, w.gi, w.di)

PrimitiveRoot(g, p) ==
    /\ g \in 1..(p - 1)
    /\ \A k \in 1..(p - 2) : ModExp(g, k, p) # 1

\* C16: for a prime p, a primitive root g modulo p and h in [1, p), solve()
\* called on the finished walk returns Some(e) with g^e mod p = h.
C16_PrimitiveRootSolved ==
    (/\ ein.kind = "Log"
     /\ IsPrime(ein.p) /\ PrimitiveRoot(ein.g, ein.p) /\ ein.h \in 1..(ein.p - 1)
     /\ ewalk.some /\ ewalk.v.finished
     /\ eop = "solve")
    => /\ epc = "walk"
       /\ eret.some
       /\ ModExp(ein.g, eret.v, ein.p) = ein.h

RECURSIVE FIter(_, _, _)
\* f^k(v) for f(v) = (v v + 1) mod n
FIter(n, k, v) == IF k = 0 THEN v ELSE FIter(n, k - 1, (v * v + 1) % n)

\* C17: for a modulus n accepted by the constructor, after step i (from the
\* initial state i = 0 to the last step) x = f^i(1) and y = f^(2i)(1) for
\* f(v) = (v v + 1) mod n, and the item returned by that step carries the
\* same i, x and y.
C17_FactorWalkInvariant ==
    (ein.kind = "RSA" /\ ewalk.some) =>
        LET w == ewalk.v IN
        /\ w.n = U64Val(ein.n)
        /\ w.xi = FIter(w.n, w.i, 1)
        /\ w.yi = FIter(w.n, 2 * w.i, 1)
        /\ (epc = "walk" /\ eop = "next" /\ eret.some) =>
            /\ eret.v.i = w.i /\ eret.v.xi = w.xi /\ eret.v.yi = w.yi

\* The walk over n = 35 after its second step: x = f^2(1) = 5, y = f^4(1) = 12
C17_Witness ==
    /\ ein = [kind |-> "RSA", n |-> U64Of(35)]
    /\ epc = "walk" /\ eop = "next"
    /\ ewalk.v.i = 2 /\ ewalk.v.xi = 5 /\ ewalk.v.yi = 12
    /\ eret.some /\ eret.v.i = 2

\* C18: whenever factor() returns Some(g) for the modulus n, 1 < g < n and
\* n mod g = 0, so that g (n / g) = n.
C18_FactorCorrect ==
    (ein.kind = "RSA" /\ epc = "walk" /\ eop = "factor" /\ eret.some) =>
        LET n == U64Val(ein.n)
            g == eret.v
        IN /\ 1 < g /\ g < n
           /\ n % g = 0
           /\ g * (n \div g) = n

\* factor() has returned Some(7) for the walk over n = 35
C18_Witness ==
    /\ ein = [kind |-> "RSA", n |-> U64Of(35)]
    /\ epc = "walk" /\ eop = "factor"
    /\ eret = Some(7)

\* The greatest common divisor of d > 0 and n > 0, by its definition.
GreatestCommonDivisor(d, n) ==
    CHOOSE k \in 1..n :
        /\ d % k = 0 /\ n % k = 0
        /\ \A j \in 1..n : (d % j = 0 /\ n % j = 0) => j <= k

\* A call of next() on the walk over an RSA modulus that returns.
FactorNextReturns ==
    /\ ein.kind = "RSA" /\ epc = "walk" /\ ewalk.some
    /\ epc' = "walk" /\ eop' = "next"

\* C19: in a walk over n, factor is None on every step before the first step
\* whose g = gcd(|x - y|, n) has 1 < g and g divides n; on that step factor
\* becomes Some(g) and finished becomes true; every later call of next()
\* returns None and changes none of factor, finished, i, x and y.
C19_FactorOnce ==
    /\ []((ein.kind = "RSA" /\ ewalk.some /\ ~ewalk.v.finished) => ewalk.v.factor = None)
    /\ [][ FactorNextReturns =>
            LET w == ewalk.v
                w2 == ewalk'.v
            IN IF w.finished
               THEN eret' = None /\ w2 = w
               ELSE LET g == GreatestCommonDivisor(AbsDiff(w2.xi, w2.yi), w.n)
                    IN IF 1 < g /\ w.n % g = 0
                       THEN w2.factor = Some(g) /\ w2.finished
                       ELSE w2.factor = None /\ ~w2.finished ]_vars

\* next() was called on the finished walk over n = 35, whose factor 7 is
\* still held, and returned None
C19_Witness ==
    /\ ein = [kind |-> "RSA", n |-> U64Of(35)]
    /\ epc = "walk" /\ eop = "next" /\ eret = None
    /\ ewalk.v.finished /\ ewalk.v.factor = Some(7)

\* (n - 1) (n - 1) does not fit in 64 bits.
ModulusTooLarge(n) ==
    LET nm1 == U64_sub(Ok(n), Ok(U64Of(1)), TRUE).v
    IN ~U64_checked_mul(nm1, nm1).some

\* C20: constructing the walk for a modulus n whose (n - 1) (n - 1) does not
\* fit in 64 bits hands the caller an error value: the broker that handled
\* the RSA event of a registered peer for such an n has not unwound.
C20_ModulusTooLargeReported ==
    (blast.kind = "RSA" /\ blast.known /\ ModulusTooLarge(blast.n)) => bres # "panic"

\* A step of the walk from self computes a product, sum or difference that
\* does not fit in 64 bits: with overflow checks that step unwinds.
StepOverflows(self) == PollardsLog_next_u64(self, FALSE).panic

\* C21: no step of the walk computes a product that wraps modulo 2^64: the
\* walk accepts (p, g, h) only if every product of every step fits in 64 bits.
C21_NoProductWraps ==
    (ein.kind = "LogU64" /\ epc = "walk" /\ ewalk.some) => ~StepOverflows(ewalk.v)

\* C22: for every modulus m >= 2 and every v in [1, m), with d = gcd(v, m) and
\* (s, t) the coefficients of gcd_weights for the pair in either order,
\* gcd_mul_inverse(m, v, d, s, t) returns w with (v w) mod m = d, and none of
\* its assertions fails.
C22_InverseCorrect ==
    /\ (ein.kind \in {"Inverse", "InverseU64"}) => epc # "panicked"
    /\ (ein.kind = "Inverse" /\ epc = "returned") =>
            (ein.v * eret.v) % ein.m = GreatestCommonDivisor(ein.v, ein.m)
    /\ (ein.kind = "InverseU64" /\ epc = "returned") =>
            \E vw \in {BytesMul(U64Bytes(ein.v), U64Bytes(eret.v))},
               d \in {gcd_u64(ein.v, ein.m).v} :
                BytesRem(vw, BytesPad(U64Bytes(ein.m), 16)) = BytesPad(U64Bytes(d), 16)

\* a s - b t = g on naturals
Combination(a, s, b, t, g) == a * s = b * t + g

\* a s - b t = g on u64 values, with the products taken on 128 bits
CombinationU64(a, s, b, t, g) ==
    \E as \in {BytesMul(U64Bytes(a), U64Bytes(s))}, bt \in {BytesMul(U64Bytes(b), U64Bytes(t))} :
        Append(as, 0) = BytesAdd(bt, BytesPad(U64Bytes(g), 16), 0)

\* C23: for every a >= 1 and b >= 1, gcd_weights(a, b) returns non-negative
\* (s, t) such that one of a s - b t, a t - b s, b s - a t, b t - a s is
\* gcd(a, b).
C23_WeightsCorrect ==
    /\ (ein.kind \in {"Weights", "WeightsU64"}) => epc # "panicked"
    /\ (ein.kind = "Weights" /\ epc = "returned") =>
        LET a == ein.a
            b == ein.b
            st == eret.v
            g == GreatestCommonDivisor(a, b)
        IN /\ st[1] >= 0 /\ st[2] >= 0
           /\ IF Combination(a, st[1], b, st[2], g) THEN TRUE
              ELSE IF Combination(a, st[2], b, st[1], g) THEN TRUE
              ELSE IF Combination(b, st[1], a, st[2], g) THEN TRUE
              ELSE Combination(b, st[2], a, st[1], g)
    /\ (ein.kind = "WeightsU64" /\ epc = "returned") =>
        LET a == ein.a
            b == ein.b
            st == eret.v
            g == gcd_u64(a, b).v
        IN IF g = ZeroU64 THEN FALSE
           ELSE IF CombinationU64(a, st[1], b, st[2], g) THEN TRUE
           ELSE IF CombinationU64(a, st[2], b, st[1], g) THEN TRUE
           ELSE IF CombinationU64(b, st[1], a, st[2], g) THEN TRUE
           ELSE CombinationU64(b, st[2], a, st[1], g)

\* gcd_weights(35, 15) has returned (2, 1): 15 * 2 - 35 * 1 = -5, and
\* 35 * 1 - 15 * 2 = 5 = gcd(35, 15)
C23_Witness ==
    /\ ein.kind = "Weights" /\ ein.a = 35 /\ ein.b = 15
    /\ epc = "returned" /\ eop = "gcd_weights"
    /\ eret = Some(<<2, 1>>)

\* 2^32 + 15 is prime (the least prime above 2^32).
WidePrimes == { <<15, 0, 1, 0>> }

\* The modulus of a miller_rabin call is prime.
MillerRabinOnPrime ==
    CASE ein.kind = "MillerRabin" -> IsPrime(ein.n)
      [] ein.kind = "MillerRabinU64" -> ein.n \in WidePrimes
      [] OTHER -> FALSE

\* C24: miller_rabin(n, a) returns true only when n is composite: for every
\* prime n and every a in [2, n) the call returns false.
C24_PrimeNeverComposite ==
    MillerRabinOnPrime =>
        /\ epc # "panicked"
        /\ epc = "returned" => eret.v = FALSE

\* C25: for every Prime event of a registered peer, whatever p the client
\* sent, the broker enqueues one response (Prime or NotPrime) and keeps
\* running: the witness rounds never end the broker with ServerError::Task.
C25_PrimeAnswered ==
    (blast.kind = "Prime" /\ blast.known) => bres # "Task"

\* The number of ConnectionOk responses in a sequence of responses or frames.
RECURSIVE CountConnectionOk(_)
CountConnectionOk(q) ==
    IF q = <<>> THEN 0
    ELSE (IF Head(q).kind = "ConnectionOk" THEN 1 ELSE 0) + CountConnectionOk(Tail(q))

\* The broker handles the NewClient event of peer c in this step.
HandlesNewClient(c) == wpc[c] = "none" /\ wpc'[c] # "none"

\* C26: the broker enqueues ConnectionOk for a connection exactly once, in
\* the step that handles its NewClient event, with the peer in the registry
\* and its writer spawned; no other step enqueues one and a connection is
\* registered once. ConnectionOk is ahead of every other response, so the
\* first frame written to a client, if any, is ConnectionOk.
C26_ConnectionOkFirst ==
    /\ [](\A c \in Peers :
            /\ (out[c] # <<>> => out[c][1].kind = "ConnectionOk")
            /\ CountConnectionOk(out[c]) + CountConnectionOk(respq[c]) <= 1
            /\ (CountConnectionOk(respq[c]) = 1 => Head(respq[c]).kind = "ConnectionOk"))
    /\ [][\A c \in Peers :
            /\ (wpc[c] # "none" => wpc'[c] # "none")
            /\ (CountConnectionOk(respq'[c]) > CountConnectionOk(respq[c])) = HandlesNewClient(c)
            /\ (HandlesNewClient(c) =>
                    /\ c \in clients' /\ wpc'[c] = "select" /\ rx'[c] = "writer"
                    /\ respq'[c] = <<[kind |-> "ConnectionOk", req |-> 0]>>
                    /\ out'[c] = <<>>)]_vars

\* A client has been written ConnectionOk and then the answer to a request.
C26_Witness ==
    \E c \in Peers : Len(out[c]) >= 2 /\ out[c][1].kind = "ConnectionOk" /\ out[c][2].kind # "ConnectionOk"

\* The user enters "q" at the Home prompt in this step.
EntersQuit == ipc = "parse" /\ iface = "Home" /\ iface' = "Quit"

\* C27: in state Home, on "q", the client writes a Quit request frame (type
\* byte 4) to the server and enters state Quit.
C27_QuitFrameWritten ==
    [][EntersQuit =>
        /\ Len(isent') = Len(isent) + 1
        /\ isent'[Len(isent')] = Frame_serialize([kind |-> "Quit"])
        /\ isent'[Len(isent')][1] = 4]_vars

\* The reader of peer c decodes a frame in this step and hands on its event.
ReaderDecodes(c) ==
    /\ rseq'[c] = rseq[c] + 1
    /\ IF rpc'[c] = "send" THEN TRUE ELSE Len(events') = Len(events) + 1

\* The event it hands on: suspended in the send, or last in the channel.
DecodedEvent(c) == IF rpc'[c] = "send" THEN rev'[c] ELSE events'[Len(events')]

\* The two requests of the model with the modulus 15 and different exponents.
SameModulus == ClientFrames[3].n = ClientFrames[8].n /\ ClientFrames[3].e # ClientFrames[8].e

\* C28: the exponent of an RSA request does not reach the broker: the event
\* the reader builds from RSA{n, e} is the event it builds from RSA{n, e2}
\* for every other exponent e2, and the event is all the broker and the
\* writer compute the response frames from.
C28_ExponentIgnored ==
    [][\A c \in Peers :
        (ReaderDecodes(c) /\ DecodedEvent(c).kind = "RSA") =>
            /\ SameModulus
            /\ \E k \in menu \cap DOMAIN ClientFrames :
                /\ ClientFrames[k].kind = "RSA"
                /\ \A e2 \in U64Samples \cup {U64Of(3), U64Of(5)} :
                    DecodedEvent(c) = EventOf(c, [ClientFrames[k] EXCEPT !.e = e2], rseq'[c])]_vars

\* The walk on 15 has been written to its end for a request RSA{15, e}.
C28_Witness ==
    \E c \in Peers : \E i \in 1..Len(out[c]) :
        /\ out[c][i].kind = "SuccessfulRSA"
        /\ out[c][i].p * out[c][i].q = 15

\* solve() was the last call, on a walk that had not finished.
SolvedUnfinished ==
    ein.kind = "Log" /\ eop = "solve" /\ ewalk.some /\ ~ewalk.v.finished

\* C29: solve() on a walk that has not finished (the initial state with
\* i = 0 and x = y = 1 included) returns to its caller with the NotConverged
\* error and no logarithm: the call does not unwind and yields no Some(e).
C29_SolveNotConverged ==
    SolvedUnfinished => (epc # "panicked" /\ ~eret.some)

\* 2^61 - 1 is prime (the ninth Mersenne prime).
WideLogPrimes == { <<65535, 65535, 65535, 8191>> }

\* The walk is on an odd prime p with g and h in [1, p).
LogOnOddPrime ==
    CASE ein.kind = "Log" ->
            /\ IsPrime(ein.p) /\ ein.p > 2
            /\ ein.g \in 1..(ein.p - 1) /\ ein.h \in 1..(ein.p - 1)
      [] ein.kind = "LogU64" ->
            /\ ein.p \in WideLogPrimes
            /\ ein.g # ZeroU64 /\ U64_lt(ein.g, ein.p)
            /\ ein.h # ZeroU64 /\ U64_lt(ein.h, ein.p)
      [] OTHER -> FALSE

\* C30: for every odd prime p and g, h in [1, p) the walk is finite: every
\* next() returns (none unwinds), the steps stay below p, the walk is
\* finished exactly from the step with x = y on, that step's item being the
\* last, and next() returns None only on a finished walk.
C30_WalkTerminates ==
    LogOnOddPrime =>
        /\ ~(epc = "panicked" /\ eop = "next")
        /\ (ewalk.some /\ ein.kind = "Log") =>
                /\ ewalk.v.i < ein.p
                /\ ewalk.v.finished = (ewalk.v.i >= 1 /\ ewalk.v.xi = ewalk.v.yi)
                /\ (eop = "next" =>
                        IF eret.some
                        THEN eret.v.i = ewalk.v.i /\ eret.v.xi = ewalk.v.xi /\ eret.v.yi = ewalk.v.yi
                        ELSE ewalk.v.finished)

\* The events of peer c that its reader has handed over and the broker has
\* not yet taken: those in the channel, then the one of a suspended send.
PeerEvents(c) ==
    SelectSeq(events, LAMBDA ev : ev.peer_id = c)
        \o (IF rev[c].kind = "none" THEN <<>> ELSE <<rev[c]>>)

\* The events q of a reader that has decoded n frames are in the order of
\* the frames: NewClient is the event of no frame, every other event is a
\* Log, RSA, Prime or Quit, the events are those of successive frames up to
\* the last one decoded, and a Quit has no event behind it.
InFrameOrder(q, n) ==
    /\ \A i \in DOMAIN q :
        /\ (q[i].kind = "NewClient") = (q[i].req = 0)
        /\ q[i].kind \in {"NewClient", "Log", "RSA", "Prime", "Quit"}
        /\ IF i < Len(q) THEN q[i + 1].req = q[i].req + 1 /\ q[i].kind # "Quit"
           ELSE q[i].req = n

\* C31: the events a connection's reader sends to the broker are NewClient,
\* then Log, RSA and Prime events in the order the frames were read, then at
\* most one Quit; after the Quit event, as after any exit of the reader, no
\* further event of that peer is sent.
C31_ReaderEventOrder ==
    /\ [](\A c \in Peers :
            /\ InFrameOrder(PeerEvents(c), rseq[c])
            /\ (\E i \in DOMAIN PeerEvents(c) : PeerEvents(c)[i].kind = "Quit")
                    => rpc[c] \in {"send", "ok"}
            /\ rpc[c] = "unborn" => PeerEvents(c) = <<>> /\ rseq[c] = 0)
    /\ [][\A c \in Peers :
            /\ ReaderExited(c) => /\ Len(PeerEvents(c)') <= Len(PeerEvents(c))
                                  /\ rseq'[c] = rseq[c]
            /\ Len(PeerEvents(c)') <= Len(PeerEvents(c)) + 1
            /\ rseq'[c] \in {rseq[c], rseq[c] + 1}]_vars

\* A reader has sent the Quit event of its second frame and has returned.
C31_Witness ==
    \E c \in Peers :
        /\ rpc[c] = "ok" /\ rseq[c] = 2
        /\ PeerEvents(c) # <<>>
        /\ PeerEvents(c)[1].kind = "Quit" /\ PeerEvents(c)[1].req = 2

\* C32: for every modulus n a client can send in an RSA request, the loop
\* `while let Some(item) = pollards.next()` that the writer task drives ends
\* without unwinding: no call of next() on the walk fails.
C32_RSAWalkCompletes ==
    (ein.kind = "RSA" /\ eop = "next") => epc # "panicked"

\* The second call of next() on the walk over the prime n = 7 has unwound:
\* x = y = 5 after it, and gcd(0, 7) fails its assertion.
C32_WalkUnwinds ==
    /\ ein = [kind |-> "RSA", n |-> U64Of(7)]
    /\ epc = "panicked" /\ eop = "next"
    /\ ewalk.some /\ ewalk.v.i = 1

\* C33: after the walk over an odd prime p with g and h in [1, p) has
\* finished, solve() returns a value, Some(e) or None, and fails no assertion.
C33_SolveReturns ==
    (/\ ein.kind = "Log"
     /\ ein.p % 2 = 1 /\ IsPrime(ein.p)
     /\ ein.g \in 1..(ein.p - 1) /\ ein.h \in 1..(ein.p - 1)
     /\ ewalk.some /\ ewalk.v.finished
     /\ eop = "solve")
    => epc = "walk"

\* The broker has handled the NewClient event of peer c: it has spawned the
\* writer task of c.
NewClientHandled(c) == wpc[c] # "none"

\* The broker has handled the harvest of peer c: it has taken the triple of
\* the exited writer task and dropped its receiver.
HarvestHandled(c) == wpc[c] = "exited" /\ rx[c] = "dropped"

\* The harvest messages of peer c that the broker has not yet taken
PendingHarvests(c) == Len(SelectSeq(harvest, LAMBDA k : k = c))

\* While main_broker runs, the registry holds the peers whose NewClient is
\* handled and whose harvest is not.
RegistryExact ==
    bpc # "done" =>
        \A c \in Peers : (c \in clients) = (NewClientHandled(c) /\ ~HarvestHandled(c))

\* A harvest message is produced only by a writer task that has exited, and
\* the broker finds its peer registered.
HarvestAfterExit ==
    \A c \in Peers : PendingHarvests(c) > 0 =>
        wpc[c] = "exited" /\ PendingHarvests(c) = 1 /\ c \in clients

\* Every writer task that is over has produced its harvest message.
HarvestPerWriter ==
    bpc # "done" =>
        \A c \in Peers : wpc[c] \in {"exited", "panicked"} =>
            IF HarvestHandled(c) THEN PendingHarvests(c) = 0 ELSE PendingHarvests(c) = 1

\* C34: the registry contains a peer exactly when the broker has handled its
\* NewClient event and not yet its harvest; every writer task produces
\* exactly one harvest message, after it has exited, and the broker finds the
\* peer registered when it handles the harvest.
C34_RegistryLifecycle ==
    /\ RegistryExact
    /\ HarvestAfterExit
    /\ HarvestPerWriter

\* A step in which the broker takes a Quit event off the event channel
QuitHandled ==
    /\ bpc = "select"
    /\ events # <<>>
    /\ Head(events).kind = "Quit"
    /\ events' = Tail(events)

\* A step in which the broker handles the harvest of peer c
HarvestHandledNow(c) ==
    /\ harvest # <<>>
    /\ Head(harvest) = c
    /\ harvest' = Tail(harvest)

\* C35: handling a Quit event leaves the registry and every response queue
\* unchanged (no entry removed, no response enqueued), and while main_broker
\* runs an entry leaves the registry only when the peer's harvest is handled.
C35_QuitLogsOnly ==
    [][/\ QuitHandled => clients' = clients /\ respq' = respq /\ rx' = rx
       /\ \A c \in Peers :
            (c \in clients /\ c \notin clients' /\ bpc' # "done") => HarvestHandledNow(c)]_vars

\* The broker has handled the Quit of the only connected peer, which is still
\* registered.
C35_Witness ==
    /\ blast = [kind |-> "Quit", known |-> TRUE]
    /\ clients = {1}
    /\ rpc[1] = "ok"
    /\ rpc[2] = "unborn"
    /\ events = <<>>
    /\ bpc = "select"

\* C36: the broker never stays suspended in a send to a response queue; every
\* event in the event channel and every pending harvest is eventually taken
\* by the broker.
C36_BrokerSendCompletes ==
    /\ (bpc = "send") ~> (bpc # "send")
    /\ \A n \in 1..(FairFrames + NumClients) :
        (Len(events) = n) ~> (Len(events) < n)
    /\ \A c \in Peers : (PendingHarvests(c) = 1) ~> (PendingHarvests(c) = 0)

\* The number of responses written in full on the connection of c
CompleteResponses(c) ==
    Len(SelectSeq(out[c], LAMBDA f : f.kind \in ResponseEnd))

\* C37: when the reader of a connection has returned after a Quit frame and
\* the writer task has returned through the shutdown branch, no response is
\* left in the connection's queue, and ConnectionOk and the response of every
\* request forwarded before the Quit are written in full.
C37_QuitFlushesResponses ==
    \A c \in Peers :
        (rpc[c] = "ok" /\ wpc[c] = "exited" /\ wres[c] = "Ok") =>
            /\ respq[c] = <<>>
            /\ CompleteResponses(c) = rseq[c]

\* The broker takes the next event or the next harvest.
BrokerTakesNext ==
    \/ BrokerNewClient \/ BrokerPrime \/ BrokerLog \/ BrokerRSA \/ BrokerQuit
    \/ BrokerHarvest

\* An event or a harvest of a connection other than c waits for the broker.
OtherWaiting(c) ==
    \/ events # <<>> /\ Head(events).peer_id # c
    \/ harvest # <<>> /\ Head(harvest) # c

\* C38: while the primality test of one client's Prime request runs, the
\* broker can take a waiting event or harvest of another connection.
C38_BrokerNotBlockedByPrime ==
    (bpc = "prime" /\ OtherWaiting(bcur.c)) => ENABLED BrokerTakesNext

\* C39: in the loop of Client::connect, receive_response is never called in
\* state ReturnHome or Quit and parse_request never in state Init, Prime, Log
\* or RSA, so neither returns the InterfaceState error; with a peer that
\* answers as the server does, the loop ends only in state Quit.
C39_InterfaceStateUnreachable ==
    /\ ires # "InterfaceState"
    /\ ipc = "receive" => iface \in {"Init", "Home", "Prime", "Log", "RSA"}
    /\ ipc = "parse" => iface \in {"Home", "ReturnHome"}
    /\ (ipc = "done" /\ ifeed = "protocol") => (iface = "Quit" /\ ires = "Ok")

\* The user quits after two answered requests, the second a Log request.
C39_Witness ==
    /\ ifeed = "protocol"
    /\ ipc = "done"
    /\ iface = "Quit"
    /\ Len(isent) = MaxRequests
    /\ isent[MaxRequests] \in { Frame_serialize(f) : f \in ClientLogs }

\* The Response variants main_broker sends to a writer task
BrokerResponseKinds == {"ConnectionOk", "Prime", "NotPrime", "Log", "RSA"}

\* C40: every response in a peer's response queue, and every response a
\* writer task has taken from it, is ConnectionOk, Prime, NotPrime, Log or
\* RSA, and no writer task returns the IllegalResponse error.
C40_OnlyBrokerResponses ==
    \A c \in Peers :
        /\ \A i \in DOMAIN respq[c] : respq[c][i].kind \in BrokerResponseKinds
        /\ wpc[c] = "write" => wcur[c].kind \in BrokerResponseKinds
        /\ wres[c] # "IllegalResponse"

\* A writer task has written ConnectionOk and the answer of a Prime request,
\* and the response of a second request waits in its queue.
C40_Witness ==
    \E c \in Peers :
        /\ wpc[c] = "select"
        /\ Len(out[c]) = 2
        /\ out[c][1].kind = "ConnectionOk"
        /\ out[c][2].kind \in {"Prime", "NotPrime"}
        /\ respq[c] # <<>>
        /\ respq[c][1].kind \in {"Log", "RSA"}
====
